---- MODULE Spec2Model ----
(***************************************************************************)
(* Model of the terminfo screen of tcell (tscreen.go): the input parser    *)
(* (collectEventsFromInput and its sub-parsers), the event pump (mainLoop, *)
(* inputLoop, scanInput) and the event queue (PostEvent, PostEventWait,    *)
(* PollEvent).                                                             *)
(*                                                                         *)
(* Bytes are their integer values, byte strings are sequences of bytes.    *)
(***************************************************************************)
EXTENDS Integers, Sequences, FiniteSets, TLC

(***************************************************************************)
(* Byte-string helpers (package bytes / strings of the Go library).        *)
(***************************************************************************)
Take(s, n) == SubSeq(s, 1, n)

Drop(s, n) == SubSeq(s, n + 1, Len(s))

HasPrefix(s, pre) == Len(pre) <= Len(s) /\ SubSeq(s, 1, Len(pre)) = pre

\* strings.Index: 0-based offset of the first occurrence of sub in s, or -1
Index(s, sub) ==
    LET hits == {i \in 0..(Len(s) - Len(sub)) : SubSeq(s, i + 1, i + Len(sub)) = sub}
    IN  IF hits = {} THEN -1 ELSE CHOOSE i \in hits : \A j \in hits : i <= j

\* bytes.IndexByte
IndexByte(s, c) == Index(s, <<c>>)

\* strings.Replace(s, "\r", "\n", -1)
\* no normalisation
KeepCR(s) == s

ReplaceCR(s) == [i \in 1..Len(s) |-> IF s[i] = 13 THEN 10 ELSE s[i]]

(***************************************************************************)
(* Magic strings.                                                          *)
(***************************************************************************)
pasteBegin == <<27, 91, 50, 48, 48, 126>>

pasteEnd == <<27, 91, 50, 48, 49, 126>>

pasteOSC52Begin == <<27, 93, 53, 50, 59>>

pasteOSC52End == <<27, 92>>

(***************************************************************************)
(* Keys and modifiers.  Keys keep the numeric values of the Key type: the  *)
(* control keys are their byte, the named keys start at KeyRune.           *)
(***************************************************************************)
KeyRune == 256

KeyUp == 257

KeyDown == 258

KeyRight == 259

KeyLeft == 260

KeyPgUp == 266

KeyPgDn == 267

KeyHome == 268

KeyEnd == 269

KeyDelete == 271

KeyBackspace == 8

KeyEsc == 27

ModNone == {}

ModShift == {"Shift"}

ModCtrl == {"Ctrl"}

ModAlt == {"Alt"}

ModMeta == {"Meta"}

(***************************************************************************)
(* Events.  Every event is a record with the same fields; pos, n, since    *)
(* and esc are bookkeeping of the model: the offset in the input stream of *)
(* the first byte the emitting sub-parser consumed, the number of bytes it *)
(* consumed, the offset of the first byte consumed since the previous      *)
(* event (a silently consumed ESC precedes pos), and the value of          *)
(* t.escaped when the sub-parser that emitted the event returned.          *)
(***************************************************************************)
Event(type, key, ch, mod, text, raw, x, y, btn) ==
    [type |-> type, key |-> key, ch |-> ch, mod |-> mod, text |-> text,
     raw |-> raw, x |-> x, y |-> y, btn |-> btn, pos |-> 0, n |-> 0, since |-> 0,
     esc |-> FALSE]

NewEventKey(k, ch, mod, raw) == Event("Key", k, ch, mod, <<>>, raw, 0, 0, "None")

NewEventMouse(x, y, btn, mod, raw) == Event("Mouse", 0, 0, mod, <<>>, raw, x, y, btn)

NewEventPaste(text, raw) == Event("Paste", 0, 0, ModNone, text, raw, 0, 0, "None")

NewEventRaw(esc) == Event("Raw", 0, 0, ModNone, esc, esc, 0, 0, "None")

NewEventResize(w, h) == Event("Resize", 0, 0, ModNone, <<>>, <<>>, w, h, "None")

NewEventError == Event("Error", 0, 0, ModNone, <<>>, <<>>, 0, 0, "None")

(***************************************************************************)
(* The capability record (t.ti): the capabilities of a small monochrome    *)
(* xterm-like terminal.  A capability the terminal lacks is the empty      *)
(* string.                                                                 *)
(***************************************************************************)
ti ==
    [KeyBackspace |-> <<127>>,
     KeyDelete    |-> <<27, 91, 51, 126>>,
     KeyHome      |-> <<>>,
     KeyEnd       |-> <<>>,
     KeyUp        |-> <<27, 79, 65>>,
     KeyDown      |-> <<>>,
     KeyLeft      |-> <<>>,
     KeyRight     |-> <<>>,
     KeyPgUp      |-> <<>>,
     KeyPgDn      |-> <<>>,
     EnterKeypad  |-> <<27, 91, 63, 49, 104, 27, 61>>,
     ExitKeypad   |-> <<27, 91, 63, 49, 108, 27, 62>>,
     Mouse        |-> <<27, 91, 77>>,
     Modifiers    |-> "None",
     Colors       |-> 0,
     SetFg        |-> <<>>,
     SetBg        |-> <<>>,
     SetFgBg      |-> <<>>,
     ResetFgBg    |-> <<>>,
     SetFgRGB     |-> <<>>,
     SetBgRGB     |-> <<>>,
     SetFgBgRGB   |-> <<>>,
     EnterCA      |-> <<27, 91, 63, 49, 48, 52, 57, 104>>,
     ExitCA       |-> <<27, 91, 63, 49, 48, 52, 57, 108>>,
     HideCursor   |-> <<27, 91, 63, 50, 53, 108>>,
     ShowCursor   |-> <<27, 91, 63, 50, 53, 104>>,
     Clear        |-> <<27, 91, 72, 27, 91, 50, 74>>,
     AttrOff      |-> <<27, 91, 109>>,
     Bold         |-> <<27, 91, 49, 109>>]

(***************************************************************************)
(* Key table construction.  A key table is [keycodes, keyexist]: keycodes  *)
(* is a function from byte strings to [key, mod], keyexist a set of keys.  *)
(***************************************************************************)
prepareKeyMod(kt, key, mod, val) ==
    IF val # <<>> /\ val \notin DOMAIN kt.keycodes
    THEN [keycodes |-> (val :> [key |-> key, mod |-> mod]) @@ kt.keycodes,
          keyexist |-> kt.keyexist \cup {key}]
    ELSE kt

\* an existing entry is overwritten whatever its key
prepareKeyModOverwrite(kt, key, replace, mod, val) ==
    IF val # <<>>
    THEN [keycodes |-> [x \in DOMAIN kt.keycodes \cup {val} |->
                           IF x = val THEN [key |-> key, mod |-> mod]
                           ELSE kt.keycodes[x]],
          keyexist |-> kt.keyexist \cup {key}]
    ELSE kt

prepareKeyModReplace(kt, key, replace, mod, val) ==
    IF val # <<>> /\ (val \notin DOMAIN kt.keycodes \/ kt.keycodes[val].key = replace)
    THEN [keycodes |-> [x \in DOMAIN kt.keycodes \cup {val} |->
                           IF x = val THEN [key |-> key, mod |-> mod]
                           ELSE kt.keycodes[x]],
          keyexist |-> kt.keyexist \cup {key}]
    ELSE kt

prepareKey(kt, key, val) == prepareKeyMod(kt, key, ModNone, val)

\* the prepareKey calls of prepareKeys, in source order, for the capabilities
\* of ti (the other calls pass a capability that ti leaves empty)
CapCalls ==
    << <<KeyBackspace, ti.KeyBackspace>>, <<KeyDelete, ti.KeyDelete>>,
       <<KeyHome, ti.KeyHome>>, <<KeyEnd, ti.KeyEnd>>, <<KeyUp, ti.KeyUp>>,
       <<KeyDown, ti.KeyDown>>, <<KeyLeft, ti.KeyLeft>>, <<KeyRight, ti.KeyRight>>,
       <<KeyPgUp, ti.KeyPgUp>>, <<KeyPgDn, ti.KeyPgDn>> >>

\* cursor mode and application mode sequences, inserted when the terminal has
\* an application keypad mode
KeypadCalls ==
    << <<KeyUp, <<27, 91, 65>> >>, <<KeyDown, <<27, 91, 66>> >>,
       <<KeyRight, <<27, 91, 67>> >>, <<KeyLeft, <<27, 91, 68>> >>,
       <<KeyEnd, <<27, 91, 70>> >>, <<KeyHome, <<27, 91, 72>> >>,
       <<KeyDelete, <<27, 91, 51, 126>> >>, <<KeyHome, <<27, 91, 49, 126>> >>,
       <<KeyEnd, <<27, 91, 52, 126>> >>, <<KeyPgUp, <<27, 91, 53, 126>> >>,
       <<KeyPgDn, <<27, 91, 54, 126>> >>,
       <<KeyUp, <<27, 79, 65>> >>, <<KeyDown, <<27, 79, 66>> >>,
       <<KeyRight, <<27, 79, 67>> >>, <<KeyLeft, <<27, 79, 68>> >>,
       <<KeyHome, <<27, 79, 72>> >> >>

RECURSIVE prepareAll(_, _)
prepareAll(kt, calls) ==
    IF calls = <<>> THEN kt
    ELSE prepareAll(prepareKey(kt, calls[1][1], calls[1][2]), Tail(calls))

\* the loop over the control bytes: a byte that starts an existing sequence
\* gets no entry of its own
RECURSIVE prepareCtrl(_, _)
prepareCtrl(kt, i) ==
    IF i >= 32 THEN kt
    ELSE IF \E esc \in DOMAIN kt.keycodes : esc[1] = i
         THEN prepareCtrl(kt, i + 1)
         ELSE prepareCtrl(
                [keycodes |-> (<<i>> :> [key |-> i,
                                         mod |-> IF i \in {8, 9, 27, 13}
                                                 THEN ModNone ELSE ModCtrl])
                              @@ kt.keycodes,
                 keyexist |-> kt.keyexist \cup {i}],
                i + 1)

prepareKeys ==
    LET kt0 == [keycodes |-> << >>, keyexist |-> {}]
        kt1 == prepareAll(kt0, CapCalls)
        kt2 == IF ti.EnterKeypad # <<>> THEN prepareAll(kt1, KeypadCalls) ELSE kt1
    IN  prepareCtrl(kt2, 0)

\* t.keycodes after NewTerminfoScreen
keycodes == prepareKeys.keycodes

(***************************************************************************)
(* The decoder of the terminal's charset (UTF-8): Transform(dst, src, true)*)
(* of the validating UTF-8 decoder, and utf8.DecodeRune.                   *)
(***************************************************************************)
IsCont(c) == c >= 128 /\ c <= 191

\* length of the complete, valid UTF-8 encoding at the start of s, or 0
RuneLen(s) ==
    IF s = <<>> THEN 0
    ELSE LET c == s[1] IN
         IF c < 128 THEN 1
         ELSE IF c >= 194 /\ c <= 223
              THEN IF Len(s) >= 2 /\ IsCont(s[2]) THEN 2 ELSE 0
         ELSE IF c >= 224 /\ c <= 239
              THEN IF /\ Len(s) >= 3
                      /\ IsCont(s[2])
                      /\ IsCont(s[3])
                      /\ (c = 224 => s[2] >= 160)
                      /\ (c = 237 => s[2] <= 159)
                   THEN 3 ELSE 0
         ELSE IF c >= 240 /\ c <= 244
              THEN IF /\ Len(s) >= 4
                      /\ IsCont(s[2])
                      /\ IsCont(s[3])
                      /\ IsCont(s[4])
                      /\ (c = 240 => s[2] >= 144)
                      /\ (c = 244 => s[2] <= 143)
                   THEN 4 ELSE 0
         ELSE 0

\* utf8.DecodeRune of one complete encoding
DecodeRune(s) ==
    IF Len(s) = 1 THEN s[1]
    ELSE IF Len(s) = 2 THEN (s[1] - 192) * 64 + (s[2] - 128)
    ELSE IF Len(s) = 3 THEN (s[1] - 224) * 4096 + (s[2] - 128) * 64 + (s[3] - 128)
    ELSE (s[1] - 240) * 262144 + (s[2] - 128) * 4096 + (s[3] - 128) * 64 + (s[4] - 128)

RuneError == 65533

\* the number of bytes of src that are complete valid encodings, from its start
RECURSIVE ValidPrefixLen(_)
ValidPrefixLen(src) ==
    LET l == RuneLen(src)
    IN  IF l = 0 THEN 0 ELSE l + ValidPrefixLen(Drop(src, l))

\* decoder.Transform(utfb, src, true): at end of input an incomplete encoding
\* is invalid, never a short source
Transform(src) ==
    LET i == ValidPrefixLen(src)
    IN  [nout |-> i, nin |-> i,
         err |-> IF i = Len(src) THEN "nil" ELSE "ErrInvalidUTF8"]

(***************************************************************************)
(* base64.StdEncoding                                                      *)
(***************************************************************************)
B64Char(i) ==
    IF i < 26 THEN 65 + i
    ELSE IF i < 52 THEN 97 + (i - 26)
    ELSE IF i < 62 THEN 48 + (i - 52)
    ELSE IF i = 62 THEN 43 ELSE 47

\* the value of an alphabet character, or -1
B64Val(c) ==
    IF c >= 65 /\ c <= 90 THEN c - 65
    ELSE IF c >= 97 /\ c <= 122 THEN c - 97 + 26
    ELSE IF c >= 48 /\ c <= 57 THEN c - 48 + 52
    ELSE IF c = 43 THEN 62
    ELSE IF c = 47 THEN 63 ELSE -1

RECURSIVE EncodeToString(_)
EncodeToString(t) ==
    IF t = <<>> THEN <<>>
    ELSE IF Len(t) = 1
         THEN <<B64Char(t[1] \div 4), B64Char((t[1] % 4) * 16), 61, 61>>
    ELSE IF Len(t) = 2
         THEN <<B64Char(t[1] \div 4), B64Char((t[1] % 4) * 16 + t[2] \div 16),
                B64Char((t[2] % 16) * 4), 61>>
    ELSE <<B64Char(t[1] \div 4), B64Char((t[1] % 4) * 16 + t[2] \div 16),
           B64Char((t[2] % 16) * 4 + t[3] \div 64), B64Char(t[3] % 64)>>
         \o EncodeToString(Drop(t, 3))

\* Decode of CR- and LF-free input: [ok, data]
RECURSIVE DecodeQuanta(_)
DecodeQuanta(s) ==
    IF s = <<>> THEN [ok |-> TRUE, data |-> <<>>]
    ELSE IF Len(s) < 4 THEN [ok |-> FALSE, data |-> <<>>]
    ELSE LET v1 == B64Val(s[1])
             v2 == B64Val(s[2])
             v3 == B64Val(s[3])
             v4 == B64Val(s[4])
         IN  IF v1 < 0 \/ v2 < 0 THEN [ok |-> FALSE, data |-> <<>>]
             ELSE IF s[3] = 61
                  THEN IF s[4] = 61 /\ Len(s) = 4
                       THEN [ok |-> TRUE, data |-> <<v1 * 4 + v2 \div 16>>]
                       ELSE [ok |-> FALSE, data |-> <<>>]
             ELSE IF v3 < 0 THEN [ok |-> FALSE, data |-> <<>>]
             ELSE IF s[4] = 61
                  THEN IF Len(s) = 4
                       THEN [ok |-> TRUE,
                             data |-> <<v1 * 4 + v2 \div 16,
                                        (v2 % 16) * 16 + v3 \div 4>>]
                       ELSE [ok |-> FALSE, data |-> <<>>]
             ELSE IF v4 < 0 THEN [ok |-> FALSE, data |-> <<>>]
             ELSE LET rest == DecodeQuanta(Drop(s, 4))
                  IN  [ok |-> rest.ok,
                       data |-> <<v1 * 4 + v2 \div 16,
                                  (v2 % 16) * 16 + v3 \div 4,
                                  (v3 % 4) * 64 + v4>> \o rest.data]

\* base64.StdEncoding.Decode: line breaks are skipped
Decode(payload) == DecodeQuanta(SelectSeq(payload, LAMBDA c : c # 13 /\ c # 10))

(***************************************************************************)
(* The parser.  A parser state p holds the input buffer of mainLoop (buf), *)
(* t.escbuf, t.escaped, t.wasbtn, t.buttondn, the events collected so far  *)
(* (evs) and, as bookkeeping, the number of bytes of the input stream      *)
(* consumed so far (off) and the offset after the last event (since).      *)
(* A sub-parser returns [part, comp, p].                                   *)
(***************************************************************************)
Res(part, comp, p) == [part |-> part, comp |-> comp, p |-> p]

\* n times: by, _ := buf.ReadByte(); t.escbuf.WriteByte(by)
ReadToEscbuf(p, n) ==
    [p EXCEPT !.buf = Drop(@, n), !.escbuf = @ \o Take(p.buf, n), !.off = @ + n]

\* buf.Next(n) or n times buf.ReadByte(), the bytes dropped
Next_(p, n) == [p EXCEPT !.buf = Drop(@, n), !.off = @ + n]

\* *evs = append(*evs, ev)
AppendEv(p, ev) == [p EXCEPT !.evs = Append(@, ev)]

\* t.escbuf.Reset()
ResetEscbuf(p) == [p EXCEPT !.escbuf = <<>>]

\* the modifier as it is, escaped or not
NoAltMod(p, mod) == mod

\* mod |= ModAlt when t.escaped, which is then cleared
AltMod(p, mod) == IF p.escaped THEN mod \cup ModAlt ELSE mod

parsePaste(p) ==
    LET b    == p.buf
        esci == IndexByte(b, 27)
        run  == IF esci # -1 THEN Take(b, esci) ELSE b
    IN  IF b[1] # 27 /\ Len(run) > 1
        THEN LET p1 == ReadToEscbuf(p, Len(run))
             IN  Res(TRUE, TRUE,
                     ResetEscbuf(AppendEv(p1, NewEventPaste(ReplaceCR(run), p1.escbuf))))
        ELSE Res(FALSE, FALSE, p)

parseOSC52Paste(p) ==
    LET str       == p.buf
        prefixLen == Len(pasteOSC52Begin) + 2
        idx       == Index(str, pasteOSC52End)
    IN  IF HasPrefix(str, pasteOSC52Begin) \/ HasPrefix(pasteOSC52Begin, str)
        THEN IF idx >= prefixLen
             THEN LET payload == SubSeq(str, prefixLen + 1, idx)
                      dec     == Decode(payload)
                      p1      == Next_(p, idx + Len(pasteOSC52End))
                      \* t.escbuf.Write(b): b is the buffer as it was on entry
                      p2      == [p1 EXCEPT !.escbuf = @ \o str]
                  IN  IF ~dec.ok
                      THEN Res(TRUE, TRUE, p2)
                      ELSE Res(TRUE, TRUE,
                               ResetEscbuf(AppendEv(p2, NewEventPaste(dec.data, p2.escbuf))))
             ELSE Res(TRUE, FALSE, p)
        ELSE Res(FALSE, FALSE, p)

parseBracketedPaste(p) ==
    LET str == ReplaceCR(p.buf)
        idx == Index(str, pasteEnd)
    IN  IF HasPrefix(str, pasteBegin) \/ HasPrefix(pasteBegin, str)
        THEN IF idx # -1 /\ idx >= Len(pasteBegin)
             THEN LET p1   == ReadToEscbuf(p, idx + Len(pasteEnd))
                      text == SubSeq(str, Len(pasteBegin) + 1, idx)
                  IN  Res(TRUE, TRUE,
                          ResetEscbuf(AppendEv(p1, NewEventPaste(text, p1.escbuf))))
             ELSE Res(TRUE, FALSE, p)
        ELSE Res(FALSE, FALSE, p)

\* every byte from 0x20 up is taken for a rune of its own
parseRuneLatin1(p) ==
    IF p.buf[1] < 32 THEN Res(FALSE, FALSE, p)
    ELSE Res(TRUE, TRUE,
             ResetEscbuf(AppendEv(ReadToEscbuf([p EXCEPT !.escaped = FALSE], 1),
                 NewEventKey(KeyRune, p.buf[1], AltMod(p, ModNone), <<p.buf[1]>>))))

parseRune(p) ==
    LET b == p.buf IN
    IF b[1] >= 32 /\ b[1] <= 127
    THEN LET p1 == ReadToEscbuf([p EXCEPT !.escaped = FALSE], 1)
         IN  Res(TRUE, TRUE,
                 ResetEscbuf(AppendEv(p1,
                     NewEventKey(KeyRune, b[1], AltMod(p, ModNone), p1.escbuf))))
    ELSE IF b[1] < 128
    THEN Res(FALSE, FALSE, p)
    ELSE LET ls == {k \in 1..Len(b) :
                       LET t0 == Transform(Take(b, k))
                       IN  t0.err # "ErrShortSrc" /\ t0.nout # 0}
         IN  IF ls = {}
             THEN Res(TRUE, FALSE, p)
             ELSE LET l  == CHOOSE k \in ls : \A m \in ls : k <= m
                      tr == Transform(Take(b, l))
                      r  == DecodeRune(Take(b, tr.nout))
                      \* the event takes t.escbuf as it is before the bytes of
                      \* the rune are read into it
                      p1 == IF r # RuneError
                            THEN ResetEscbuf(AppendEv([p EXCEPT !.escaped = FALSE],
                                     NewEventKey(KeyRune, r, AltMod(p, ModNone), p.escbuf)))
                            ELSE p
                  IN  Res(TRUE, TRUE, ReadToEscbuf(p1, tr.nin))

\* the table entries that are a prefix of the buffer; the map is iterated in
\* an unspecified order and the first hit is taken: first tells which
parseFunctionKey(p, kc, first) ==
    LET b    == p.buf
        hits == {e \in DOMAIN kc : e # <<27>> /\ HasPrefix(b, e)}
    IN  IF hits # {}
        THEN LET esc == IF first
                        THEN CHOOSE e \in hits : \A f \in hits : Len(e) <= Len(f)
                        ELSE CHOOSE e \in hits : \A f \in hits : Len(e) >= Len(f)
                 k   == kc[esc]
                 r   == IF Len(esc) = 1 THEN b[1] ELSE 0
                 p1  == ReadToEscbuf([p EXCEPT !.escaped = FALSE], Len(esc))
             IN  Res(TRUE, TRUE,
                     ResetEscbuf(AppendEv(p1,
                         NewEventKey(k.key, r, AltMod(p, k.mod), p1.escbuf))))
        ELSE Res(\E e \in DOMAIN kc : e # <<27>> /\ HasPrefix(e, b), FALSE, p)

(***************************************************************************)
(* Mouse records.                                                          *)
(***************************************************************************)
\* bit k of a two's complement integer
Bit(v, k) == (v \div (2 ^ k)) % 2

\* v | 3 and v &^ m for a single-bit mask m = 2^k
SetLow2(v) == v + (1 - Bit(v, 0)) + 2 * (1 - Bit(v, 1))

ClearBit(v, k) == v - (2 ^ k) * Bit(v, k)

clip(x, y, w, h) ==
    LET x1 == IF x < 0 THEN 0 ELSE x
        y1 == IF y < 0 THEN 0 ELSE y
    IN  <<IF x1 > w - 1 THEN w - 1 ELSE x1, IF y1 > h - 1 THEN h - 1 ELSE y1>>

\* the mouse event for the record just read into t.escbuf; w, h is the size
\* of the cell buffer
buildMouseEvent(p, x, y, btn, w, h) ==
    LET sel    == Bit(btn, 0) + 2 * Bit(btn, 1) + 64 * Bit(btn, 6)
        button == IF sel = 0 THEN "Button1"
                  ELSE IF sel = 1 THEN "Button3"
                  ELSE IF sel = 2 THEN "Button2"
                  ELSE IF sel = 3 THEN "None"
                  ELSE IF sel = 64 THEN (IF ~p.wasbtn THEN "WheelUp" ELSE "Button1")
                  ELSE IF sel = 65 THEN (IF ~p.wasbtn THEN "WheelDown" ELSE "Button1")
                  ELSE "None"
        wasbtn == IF sel \in {0, 1, 2} THEN TRUE
                  ELSE IF sel = 3 THEN FALSE ELSE p.wasbtn
        mod    == (IF Bit(btn, 2) = 1 THEN ModShift ELSE {})
                  \cup (IF Bit(btn, 3) = 1 THEN ModAlt ELSE {})
                  \cup (IF Bit(btn, 4) = 1 THEN ModCtrl ELSE {})
        xy     == clip(x, y, w, h)
    IN  ResetEscbuf(AppendEv([p EXCEPT !.wasbtn = wasbtn],
                             NewEventMouse(xy[1], xy[2], button, mod, p.escbuf)))

\* the scan of parseSgrMouse from byte i on, in state st =
\* [state, val, dig, neg, btn, x]: "no", "partial" or the terminator reached
RECURSIVE SgrScan(_, _, _)
SgrScan(b, i, st) ==
    IF i > Len(b) THEN [r |-> "partial"]
    ELSE LET c == b[i] IN
         IF c = 27
         THEN IF st.state # 0 THEN [r |-> "no"]
              ELSE SgrScan(b, i + 1, [st EXCEPT !.state = 1])
         ELSE IF c = 155
         THEN IF st.state # 0 THEN [r |-> "no"]
              ELSE SgrScan(b, i + 1, [st EXCEPT !.state = 2])
         ELSE IF c = 91
         THEN IF st.state # 1 THEN [r |-> "no"]
              ELSE SgrScan(b, i + 1, [st EXCEPT !.state = 2])
         ELSE IF c = 60
         THEN IF st.state # 2 THEN [r |-> "no"]
              ELSE SgrScan(b, i + 1,
                       [st EXCEPT !.val = 0, !.dig = FALSE, !.neg = FALSE, !.state = 3])
         ELSE IF c = 45
         THEN IF st.state \notin {3, 4, 5} \/ st.dig \/ st.neg THEN [r |-> "no"]
              ELSE SgrScan(b, i + 1, [st EXCEPT !.neg = TRUE])
         ELSE IF c >= 48 /\ c <= 57
         THEN IF st.state \notin {3, 4, 5} THEN [r |-> "no"]
              ELSE SgrScan(b, i + 1,
                       [st EXCEPT !.val = @ * 10 + (c - 48), !.dig = TRUE])
         ELSE IF c = 59
         THEN LET val == IF st.neg THEN -st.val ELSE st.val IN
              IF st.state = 3
              THEN SgrScan(b, i + 1,
                       [st EXCEPT !.btn = val, !.val = 0, !.neg = FALSE,
                                  !.dig = FALSE, !.state = 4])
              ELSE IF st.state = 4
              THEN SgrScan(b, i + 1,
                       [st EXCEPT !.x = val - 1, !.val = 0, !.neg = FALSE,
                                  !.dig = FALSE, !.state = 5])
              ELSE [r |-> "no"]
         ELSE IF c = 109 \/ c = 77
         THEN IF st.state # 5 THEN [r |-> "no"]
              ELSE [r |-> "done", i |-> i, x |-> st.x,
                    y |-> (IF st.neg THEN -st.val ELSE st.val) - 1,
                    btn |-> st.btn, release |-> (c = 109)]
         ELSE SgrScan(b, i + 1, st)

\* the button field is left as it came
KeepButtons(btn) == btn

\* btn |= 3 and btn &^= 0x40: no button, no wheel
NoButtons(btn) == ClearBit(SetLow2(btn), 6)

parseSgrMouse(p, w, h) ==
    LET sc == SgrScan(p.buf, 1,
                  [state |-> IF p.escaped THEN 1 ELSE 0, val |-> 0, dig |-> FALSE,
                   neg |-> FALSE, btn |-> 0, x |-> 0])
    IN  IF sc.r = "no" THEN Res(FALSE, FALSE, p)
        ELSE IF sc.r = "partial" THEN Res(TRUE, FALSE, p)
        ELSE LET motion   == Bit(sc.btn, 5) = 1
                 btn0     == ClearBit(sc.btn, 5)
                 btn      == IF sc.release \/ (motion /\ ~p.buttondn)
                             THEN NoButtons(btn0) ELSE btn0
                 buttondn == IF sc.release THEN FALSE
                             ELSE IF motion THEN p.buttondn ELSE TRUE
                 p1       == ReadToEscbuf([p EXCEPT !.buttondn = buttondn], sc.i)
             IN  Res(TRUE, TRUE, buildMouseEvent(p1, sc.x, sc.y, btn, w, h))

\* the scan of parseXtermMouse: the state reached after the bytes of b, with
\* the button and column read on the way
RECURSIVE XtermScan(_, _, _)
XtermScan(b, i, st) ==
    IF i > Len(b) THEN [r |-> "partial"]
    ELSE LET c == b[i] IN
         IF st.state = 0
         THEN IF c = 27 THEN XtermScan(b, i + 1, [st EXCEPT !.state = 1])
              ELSE IF c = 155 THEN XtermScan(b, i + 1, [st EXCEPT !.state = 2])
              ELSE [r |-> "no"]
         ELSE IF st.state = 1
         THEN IF c # 91 THEN [r |-> "no"]
              ELSE XtermScan(b, i + 1, [st EXCEPT !.state = 2])
         ELSE IF st.state = 2
         THEN IF c # 77 THEN [r |-> "no"]
              ELSE XtermScan(b, i + 1, [st EXCEPT !.state = 3])
         ELSE IF st.state = 3
         THEN XtermScan(b, i + 1, [st EXCEPT !.btn = c, !.state = 4])
         ELSE IF st.state = 4
         THEN XtermScan(b, i + 1, [st EXCEPT !.x = c - 32 - 1, !.state = 5])
         ELSE [r |-> "done", i |-> i, x |-> st.x, y |-> c - 32 - 1, btn |-> st.btn]

parseXtermMouse(p, w, h) ==
    LET sc == XtermScan(p.buf, 1,
                  [state |-> IF p.escaped THEN 1 ELSE 0, btn |-> 0, x |-> 0])
    IN  IF sc.r = "no" THEN Res(FALSE, FALSE, p)
        ELSE IF sc.r = "partial" THEN Res(TRUE, FALSE, p)
        ELSE Res(TRUE, TRUE,
                 buildMouseEvent(ReadToEscbuf(p, sc.i), sc.x, sc.y, sc.btn, w, h))

(***************************************************************************)
(* collectEventsFromInput.  c is what the scan reads of the screen besides *)
(* the parser state: [paste, rawseq, first, w, h, kc].                     *)
(***************************************************************************)
\* a parser that never asks for more bytes
NoPart(r) == 0

PartCount(r) == IF r.part THEN 1 ELSE 0

\* the first registered raw sequence that is a prefix of strb, as a set
RawMatch(rawseq, strb) ==
    LET is == {i \in 1..Len(rawseq) : HasPrefix(strb, rawseq[i])}
    IN  IF is = {} THEN {} ELSE {rawseq[CHOOSE i \in is : \A j \in is : i <= j]}

\* a catch-all that takes every ESC, a lone one too, for the start of an
\* escape
CatchAllEscPrefix(p, rawseq) ==
    [kind |-> "esc", p |-> ReadToEscbuf([p EXCEPT !.escaped = TRUE], 1)]

\* the branch taken when nothing matches or the quiet time has expired
CatchAll(p, rawseq) ==
    LET b == p.buf IN
    IF b[1] = 27
    THEN LET rm == RawMatch(rawseq, b) IN
         IF rm # {}
         THEN LET r == CHOOSE r \in rm : TRUE
              IN  [kind |-> "event",
                   p |-> Next_(ResetEscbuf(AppendEv(p, NewEventRaw(r))), Len(r))]
         ELSE IF Len(b) = 1
         THEN [kind |-> "event",
               p |-> ReadToEscbuf(
                         [ResetEscbuf(AppendEv(p, NewEventKey(KeyEsc, 0, ModNone, <<27>>)))
                             EXCEPT !.escaped = FALSE], 1)]
         ELSE [kind |-> "esc", p |-> ReadToEscbuf([p EXCEPT !.escaped = TRUE], 1)]
    ELSE LET p1 == ReadToEscbuf(p, 1)
         IN  [kind |-> "event", p |-> ResetEscbuf(AppendEv(p1, NewEventRaw(p1.escbuf)))]

\* the loop waits on a partial match, expired or not
DeliverUnmatched(partials, expire) == partials = 0

\* if partials == 0 || expire: nothing is going to match, or the wait for more
\* bytes has timed out
Deliver(partials, expire) == partials = 0 \/ expire

\* one iteration of the loop on a non-empty buffer, given the results rs of the
\* parsers in the order of their calls: kind is "stop" when the loop breaks on
\* a partial match, "esc" when an ESC was consumed and the parser became
\* escaped, "event" otherwise (bytes consumed, with or without an event)
RoundResult(p, expire, c, rs) ==
    LET hasMouse == ti.Mouse # <<>>
        partials == PartCount(rs[2]) + PartCount(rs[3]) + PartCount(rs[4])
                    + PartCount(rs[5])
                    + (IF hasMouse THEN PartCount(rs[6]) + PartCount(rs[7]) ELSE 0)
    IN  IF rs[1].comp THEN [kind |-> "event", p |-> rs[1].p]
        ELSE IF rs[2].comp THEN [kind |-> "event", p |-> rs[2].p]
        ELSE IF rs[3].comp THEN [kind |-> "event", p |-> rs[3].p]
        ELSE IF rs[4].comp THEN [kind |-> "event", p |-> rs[4].p]
        ELSE IF rs[5].comp THEN [kind |-> "event", p |-> rs[5].p]
        ELSE IF hasMouse /\ rs[6].comp THEN [kind |-> "event", p |-> rs[6].p]
        ELSE IF hasMouse /\ rs[7].comp THEN [kind |-> "event", p |-> rs[7].p]
        ELSE IF Deliver(partials, expire) THEN CatchAll(p, c.rawseq)
        ELSE [kind |-> "stop", p |-> p]

Round(p, expire, c) ==
    RoundResult(p, expire, c,
        << IF c.paste THEN parsePaste(p) ELSE Res(FALSE, FALSE, p),
           parseOSC52Paste(p),
           parseBracketedPaste(p),
           parseRune(p),
           parseFunctionKey(p, c.kc, c.first),
           parseXtermMouse(p, c.w, c.h),
           parseSgrMouse(p, c.w, c.h) >>)

\* the bookkeeping of a round: the event it appended, if any, gets the offset
\* it started at and the number of bytes the round consumed
Tagged(p, r) ==
    LET q == r.p IN
    [q EXCEPT
       !.evs   = IF Len(q.evs) > Len(p.evs)
                 THEN [q.evs EXCEPT ![Len(q.evs)] =
                          [@ EXCEPT !.pos = p.off, !.n = q.off - p.off, !.since = p.since,
                                     !.esc = q.escaped]]
                 ELSE @,
       !.since = IF r.kind = "event" THEN q.off ELSE @]

RECURSIVE collectEventsFromInput(_, _, _)
\* the loop after a round with result r
AfterRound(p, expire, c, r) ==
    IF r.kind = "stop" THEN p
    ELSE collectEventsFromInput(Tagged(p, r), expire, c)

collectEventsFromInput(p, expire, c) ==
    IF p.buf = <<>> THEN p
    ELSE AfterRound(p, expire, c, Round(p, expire, c))

(***************************************************************************)
(* The screen after Init, its two tasks (mainLoop, inputLoop), a consumer  *)
(* calling PollEvent and the environment (the terminal's input, the        *)
(* passage of time, window size changes).                                  *)
(***************************************************************************)
VARIABLES
    stream,     \* the bytes the terminal sends, fixed at the start
    input,      \* the part of stream that inputLoop has not read yet
    reader,     \* inputLoop: "run", or "dead" after a read error
    keychan,    \* t.keychan: the chunks read and not yet received
    buf,        \* the buffer of mainLoop
    escbuf,     \* t.escbuf
    escaped,    \* t.escaped
    wasbtn,     \* t.wasbtn
    buttondn,   \* t.buttondn
    off,        \* the number of bytes of stream consumed from buf so far
    since,      \* the offset in stream after the last event
    paste,      \* t.paste
    rawseq,     \* t.rawseq
    keytimer,   \* t.keytimer: ms left, 0 when its tick waits in keytimer.C,
                \* -1 when stopped or expired with the tick taken
    keyexpire,  \* ms left until t.keyexpire, 0 once it is past
    pc,         \* mainLoop: "select", or posting the events of a scan
    pending,    \* the events of the scan that scanInput has yet to post
    evch,       \* t.evch
    size,       \* (t.w, t.h)
    winsize,    \* the size of the terminal window
    sigwinch,   \* the number of signals waiting in t.sigwinch
    nwin,       \* the number of window size changes so far
    emitted,    \* every event the parser has produced, in order
    dropped,    \* every event PostEvent has dropped
    delivered,  \* every event PollEvent has returned, in order
    expired,    \* the quiet time has expired on buffered bytes and forced a scan
    kt,         \* the key table (t.keycodes, t.keyexist)
    call,       \* the last call that added to the key table, or the last
                \* step of prepareKeys
    registered, \* every sequence passed to RegisterRawSeq, before or after Init
    scr,        \* the screen: fini, style, curstyle, clear, cx, cy, cursorx,
                \* cursory, buffering, fallback, cells, buf and out (what has
                \* been written to the terminal since Init returned), ti (the
                \* colour capabilities of t.ti, or all of t.ti where the key
                \* table is built), truecolor, palette, colors and sent (the
                \* palette indices sent so far)
    mu,         \* the screen mutex: "free" or its holder
    thr,        \* what each caller thread is in the middle of
    quit,       \* t.quit is closed
    indoneq,    \* t.indoneq is closed
    finiOnce,   \* t.finiOnce: "new", "running" or "done"
    teardowns,  \* the number of times finish has run
    closes,     \* the number of times finish has closed t.quit
    op,         \* the last call of a facade operation: [fn, arg, err, prev],
                \* prev the operation called before it; a call of HasKey has
                \* its result in ret
    nops,       \* the number of facade calls so far
    nilret      \* some call of PollEvent has returned nil

keyvars == <<kt, call>>

scrvars == <<scr, mu, thr, quit, indoneq, finiOnce, teardowns, closes, op, nops, nilret>>

\* the state of the screen outside the event pump
facade == <<keyvars, registered, scrvars>>

vars == <<stream, input, reader, keychan, buf, escbuf, escaped, wasbtn, buttondn,
          off, since, paste, rawseq, keytimer, keyexpire, pc, pending, evch,
          size, winsize, sigwinch, nwin, emitted, dropped, delivered, expired,
          facade>>

\* capacity of t.evch, t.keychan and t.sigwinch
EvchCap == 10

KeychanCap == 10

SigwinchCap == 10

\* the quiet time, in ms
Quiet == 50

\* ms by which one step of Tick advances the time
TickMs == 50

\* chunks that inputLoop may be ahead of mainLoop
MaxBacklog == 1

\* window size changes in a behaviour
MaxResize == 1

\* raw sequences registered in a behaviour
MaxRawSeq == 1

Min(a, b) == IF a < b THEN a ELSE b

Max(a, b) == IF a > b THEN a ELSE b

\* facade calls in a behaviour
MaxOps == 3

\* the size of the window when Init runs, and the sizes it is changed to
InitSize == <<2, 1>>

Sizes == {InitSize, <<3, 2>>}

\* the threads of the application that call the facade
Callers == {"a", "b"}

\* escape sequences an application registers as raw
RawSeqs == {<<27, 91, 90>>}

(***************************************************************************)
(* SetClipboard: what it writes for a valid register is the clear sequence *)
(* followed by the set sequence.                                           *)
(***************************************************************************)
\* fmt.Sprintf(pasteSet, r, str) and fmt.Sprintf(pasteClear, r)
pasteSet(r, str) == <<27, 93, 53, 50, 59, r, 59>> \o str \o <<27, 92>>

pasteClear(r) == <<27, 93, 53, 50, 59, r, 59, 33, 27, 92>>

\* the text is written as it is
SetClipboardPlain(text, register) ==
    [err |-> "nil", out |-> pasteClear(register[1]) \o pasteSet(register[1], text)]

SetClipboard(text, register) ==
    IF register = <<>> THEN [err |-> "No register provided", out |-> <<>>]
    ELSE IF register[1] # 99 /\ register[1] # 112
    THEN [err |-> "Invalid register", out |-> <<>>]
    ELSE [err |-> IF Len(text) >= 74994 THEN "Text truncated" ELSE "nil",
          out |-> pasteClear(register[1])
                  \o pasteSet(register[1], EncodeToString(text))]

(***************************************************************************)
(* The input streams of the model.                                         *)
(***************************************************************************)
\* texts put on the clipboard
Texts == {<<>>, <<104>>, <<27, 92, 13>>}

\* what the terminal echoes of SetClipboard(t, "c"): the set sequence
EchoOf(t) ==
    LET out == SetClipboard(t, <<99>>).out IN Drop(out, Len(pasteClear(99)))

BracketedPaste(payload) == pasteBegin \o payload \o pasteEnd

KeySeqs == DOMAIN keycodes

\* the non-empty proper prefixes of the registered sequences
KeyPrefixes == UNION {{Take(ks, k) : k \in 1..(Len(ks) - 1)} : ks \in KeySeqs}

\* an SGR press and release of button 1, a wheel impulse, an X10 record
SgrPress == <<27, 91, 60, 48, 59, 49, 59, 49, 77>>

SgrRelease == <<27, 91, 60, 48, 59, 49, 59, 49, 109>>

X10Press == <<27, 91, 77, 32, 33, 33>>

Composites ==
    {BracketedPaste(<<13>>), EchoOf(<<104>>), SgrPress, SgrRelease, X10Press}
    \cup {ks \in KeySeqs : Len(ks) > 1}

\* streams without an ESC byte: runes, control bytes, broken encodings, the
\* encoding of U+FFFD
PlainStreams ==
    {<<97>>, <<97, 98>>, <<195, 169>>, <<97, 195, 169>>, <<195, 169, 97>>,
     <<226, 130, 172, 126>>, <<13>>, <<97, 1>>, <<195>>, <<255, 97>>, <<195, 97>>,
     <<239, 191, 189>>}

MixedStreams ==
    {<<27, 97>>, <<27, 27>>, <<27, 27, 97>>,
     BracketedPaste(<<13>>) \o <<97>>,
     pasteClear(99) \o <<97>>,
     EchoOf(<<>>) \o <<97>>,
     <<27, 91, 90>>}

\* the streams that are also read in paste mode
PasteStreams ==
    {<<97>>, <<97, 98>>, <<27, 97>>, <<27, 91, 65>>, <<13, 97, 27>>, <<27, 97, 98>>}

Streams ==
    KeySeqs \cup KeyPrefixes \cup Composites \cup PlainStreams \cup MixedStreams
    \cup {EchoOf(t) : t \in Texts}

(***************************************************************************)
(* The cell buffer (t.cells): [w, h, c], c the cells by coordinates, each  *)
(* [ch, style, dirty].  Combining runes are left out.                      *)
(***************************************************************************)
StyleDefault == "Default"

StyleBold == "Bold"

styleInvalid == "Invalid"

Styles == {StyleDefault, StyleBold}

\* a space, a letter and a wide glyph (U+4E16)
Runes == {32, 97, 19990}

\* the East Asian width of the runes above
RuneWidth(r) == IF r >= 4352 THEN 2 ELSE 1

InRange(cb, x, y) == x >= 0 /\ y >= 0 /\ x < cb.w /\ y < cb.h

CellsResize(cb, w, h) ==
    [w |-> w, h |-> h,
     c |-> [xy \in (0..(w - 1)) \X (0..(h - 1)) |->
              IF InRange(cb, xy[1], xy[2]) THEN cb.c[xy]
              ELSE [ch |-> 32, style |-> StyleDefault, dirty |-> TRUE]]]

CellsInvalidate(cb) == [cb EXCEPT !.c = [xy \in DOMAIN cb.c |-> [cb.c[xy] EXCEPT !.dirty = TRUE]]]

CellsSetDirty(cb, x, y, d) ==
    IF InRange(cb, x, y) THEN [cb EXCEPT !.c[<<x, y>>].dirty = d] ELSE cb

CellsSetContent(cb, x, y, mainc, style) ==
    IF InRange(cb, x, y)
    THEN LET cb1 == [cb EXCEPT !.c[<<x, y>>] = [ch |-> mainc, style |-> style, dirty |-> TRUE]]
         IN  IF RuneWidth(mainc) = 2 THEN CellsSetDirty(cb1, x + 1, y, TRUE) ELSE cb1
    ELSE cb

CellsFill(cb, r, style) ==
    [cb EXCEPT !.c = [xy \in DOMAIN cb.c |-> [ch |-> r, style |-> style, dirty |-> TRUE]]]

\* GetContent and Dirty in one: outside the buffer a clean space
CellsGet(cb, x, y) ==
    IF InRange(cb, x, y) THEN cb.c[<<x, y>>]
    ELSE [ch |-> 32, style |-> StyleDefault, dirty |-> FALSE]

(***************************************************************************)
(* Output.  What is written is kept in pieces [by, kind, s]: s the bytes,  *)
(* by the thread that wrote them and kind what they are (a capability, a   *)
(* cursor move, attributes, the content of a cell, a clipboard sequence);  *)
(* by and kind are bookkeeping.  t.buf is a sequence of pieces and t.out a *)
(* sequence of writes [by, data], data the pieces of one Write call.       *)
(***************************************************************************)
\* TPuts and writeString: into t.buf while the screen is buffering, else to
\* t.out at once (the strings of the model carry no padding)
TPuts(t, who, kind, s) ==
    IF s = <<>> THEN t
    ELSE IF t.buffering
    THEN [t EXCEPT !.buf = Append(@, [by |-> who, kind |-> kind, s |-> s])]
    ELSE [t EXCEPT !.out = Append(@, [by |-> who,
                                      data |-> <<[by |-> who, kind |-> kind, s |-> s]>>])]

writeString(t, who, s) == TPuts(t, who, "cell", s)

RECURSIVE Dec(_)
\* %d
Dec(n) == IF n < 10 THEN <<48 + n>> ELSE Dec(n \div 10) \o <<48 + (n % 10)>>

\* ti.TGoto(x, y)
TGoto(x, y) == <<27, 91>> \o Dec(y + 1) \o <<59>> \o Dec(x + 1) \o <<72>>

\* ti.TParm(ti.MouseMode, v)
MouseMode(v) == <<27, 91, 63, 49, 48, 48, 48, IF v = 1 THEN 104 ELSE 108>>

pasteGet(r) == <<27, 93, 53, 50, 59, r, 59, 63, 27, 92>>

pasteDisable == <<27, 91, 63, 50, 48, 48, 52, 108>>

\* utf8.EncodeRune and the encoder of a UTF-8 terminal, which passes every
\* rune of the model on
encodeRune(r) ==
    IF r < 128 THEN <<r>>
    ELSE IF r < 2048 THEN <<192 + (r \div 64), 128 + (r % 64)>>
    ELSE <<224 + (r \div 4096), 128 + ((r \div 64) % 64), 128 + (r % 64)>>

(***************************************************************************)
(* Colours.  A colour is [k, v]: k is "default", "reset", "pal" with v the *)
(* number of a palette colour, or "rgb" with v = 65536 r + 256 g + b.  A   *)
(* capability with parameters is a string in which -1, -2, ... stand for   *)
(* the parameters, written in decimal by TParm.                            *)
(***************************************************************************)
ColorDefault == [k |-> "default", v |-> 0]

ColorReset == [k |-> "reset", v |-> 0]

PaletteColor(n) == [k |-> "pal", v |-> n]

NewHexColor(v) == [k |-> "rgb", v |-> v]

Valid(c) == c.k \in {"pal", "rgb"}

IsRGB(c) == c.k = "rgb"

\* the values of the palette colours 0 to 15: black, maroon, green, olive,
\* navy, purple, teal, silver, gray, red, lime, yellow, blue, fuchsia, aqua,
\* white
ColorValues ==
    <<0, 8388608, 32768, 8421376, 128, 8388736, 32896, 12632256,
      8421504, 16711680, 65280, 16776960, 255, 16711935, 65535, 16777215>>

\* c.Hex() and c.RGB()
Hex(c) == IF IsRGB(c) THEN c.v ELSE ColorValues[c.v + 1]

RGB(c) == <<Hex(c) \div 65536, (Hex(c) \div 256) % 256, Hex(c) % 256>>

Sq(x) == x * x

\* the square of the distance of two colours in the cube of their channels
Dist(c, d) ==
    Sq(RGB(c)[1] - RGB(d)[1]) + Sq(RGB(c)[2] - RGB(d)[2]) + Sq(RGB(c)[3] - RGB(d)[3])

RECURSIVE Nearest(_, _, _, _)
\* the loop of FindColor from the i-th colour of the palette on, match the
\* nearest colour so far
Nearest(c, palette, i, match) ==
    IF i > Len(palette) THEN match
    ELSE Nearest(c, palette, i + 1,
                 IF Dist(c, palette[i]) < Dist(c, match) THEN palette[i] ELSE match)

\* the first colour of the palette that is nearest to c
FindColor(c, palette) == Nearest(c, palette, 2, palette[1])

RECURSIVE TParm(_, _)
\* ti.TParm(s, ps...)
TParm(s, ps) ==
    IF s = <<>> THEN <<>>
    ELSE (IF Head(s) < 0 THEN Dec(ps[-Head(s)]) ELSE <<Head(s)>>) \o TParm(Tail(s), ps)

\* the colour capabilities of a terminal description
ColourCaps(term) ==
    [Colors |-> term.Colors, SetFg |-> term.SetFg, SetBg |-> term.SetBg,
     SetFgBg |-> term.SetFgBg, ResetFgBg |-> term.ResetFgBg,
     SetFgRGB |-> term.SetFgRGB, SetBgRGB |-> term.SetBgRGB,
     SetFgBgRGB |-> term.SetFgBgRGB]

\* Init: t.truecolor, unless the environment disables it
Truecolor(caps) == caps.SetFgBgRGB # <<>> \/ caps.SetFgRGB # <<>> \/ caps.SetBgRGB # <<>>

\* Init: t.palette
Palette(caps) == [i \in 1..caps.Colors |-> PaletteColor(i - 1)]

\* the cache starts empty
NoColors(caps) == <<>>

\* Init: t.colors, the identity map of the built-in colours
BuiltinColors(caps) == [c \in {PaletteColor(i - 1) : i \in 1..caps.Colors} |-> c]

\* the colour is sent as it is
ResolveAsIs(colors, palette, c) == [colors |-> colors, c |-> c]

\* the colour that stands for c on the terminal, and the cache after the
\* lookup: [colors, c]
Resolve(colors, palette, c) ==
    IF ~Valid(c) THEN [colors |-> colors, c |-> c]
    ELSE IF c \in DOMAIN colors THEN [colors |-> colors, c |-> colors[c]]
    ELSE LET v == FindColor(c, palette)
         IN  [colors |-> [x \in DOMAIN colors \cup {c} |-> IF x = c THEN v ELSE colors[x]],
              c      |-> v]

\* the capability s with the palette indices ns, which are noted in t.sent
SendIndex(t, who, s, ns) ==
    [TPuts(t, who, "color", TParm(s, ns)) EXCEPT !.sent = @ \cup {ns[i] : i \in 1..Len(ns)}]

\* the string s is put out if cond holds
SendIf(t, who, cond, s) == IF cond THEN TPuts(t, who, "color", s) ELSE t

SendIndexIf(t, who, cond, s, ns) == IF cond THEN SendIndex(t, who, s, ns) ELSE t

\* the colour goes out by the RGB capability of its side
FgRGB(t, fg) == t.truecolor /\ IsRGB(fg) /\ t.ti.SetFgRGB # <<>>

BgRGB(t, bg) == t.truecolor /\ IsRGB(bg) /\ t.ti.SetBgRGB # <<>>

\* the element of a set of one
Only(S) == CHOOSE x \in S : TRUE

\* sendFgBg from the lookups on: fg and bg are the colours resolved
sendPalette(t, who, fg, bg) ==
    IF Valid(fg) /\ Valid(bg) /\ t.ti.SetFgBg # <<>>
    THEN SendIndex(t, who, t.ti.SetFgBg, <<fg.v % 256, bg.v % 256>>)
    ELSE Only({SendIndexIf(u, who, Valid(bg) /\ t.ti.SetBg # <<>>, t.ti.SetBg,
                           <<bg.v % 256>>) :
                  u \in {SendIndexIf(t, who, Valid(fg) /\ t.ti.SetFg # <<>>,
                                     t.ti.SetFg, <<fg.v % 256>>)}})

\* the lookups of fg and bg in t.colors, fg first
sendResolved(t, who, fg, bg) ==
    Only({Only({sendPalette([t EXCEPT !.colors = b.colors], who, f.c, b.c) :
                   b \in {Resolve(f.colors, t.palette, bg)}}) :
             f \in {Resolve(t.colors, t.palette, fg)}})

\* sendFgBg on a terminal with colours, after the reset
sendColours(t, who, fg, bg) ==
    IF t.truecolor /\ t.ti.SetFgBgRGB # <<>> /\ IsRGB(fg) /\ IsRGB(bg)
    THEN TPuts(t, who, "color", TParm(t.ti.SetFgBgRGB, RGB(fg) \o RGB(bg)))
    ELSE Only({sendResolved(u, who, IF FgRGB(t, fg) THEN ColorDefault ELSE fg,
                            IF BgRGB(t, bg) THEN ColorDefault ELSE bg) :
                  u \in {SendIf(SendIf(t, who, FgRGB(t, fg), TParm(t.ti.SetFgRGB, RGB(fg))),
                                who, BgRGB(t, bg), TParm(t.ti.SetBgRGB, RGB(bg)))}})

sendFgBg(t, who, fg, bg) ==
    Only({IF u.ti.Colors = 0 THEN u
          ELSE Only({sendColours(v, who, fg, bg) :
                        v \in {SendIf(u, who, fg = ColorReset \/ bg = ColorReset,
                                      u.ti.ResetFgBg)}}) :
             u \in {t}})

\* the styles with colours: maroon on the default background, red (colour 9)
\* on navy, an RGB blue on red, two RGB colours, the terminal's own colours
ColourStyles == {"Maroon", "RedOnNavy", "RGBOnRed", "RGBOnRGB", "Reset"}

\* style.Decompose(): [fg, bg, bold]
Decompose(style) ==
    IF style = "Maroon"
    THEN [fg |-> PaletteColor(1), bg |-> ColorDefault, bold |-> FALSE]
    ELSE IF style = "RedOnNavy"
    THEN [fg |-> PaletteColor(9), bg |-> PaletteColor(4), bold |-> FALSE]
    ELSE IF style = "RGBOnRed"
    THEN [fg |-> NewHexColor(240), bg |-> PaletteColor(9), bold |-> TRUE]
    ELSE IF style = "RGBOnRGB"
    THEN [fg |-> NewHexColor(240), bg |-> NewHexColor(16711422), bold |-> FALSE]
    ELSE IF style = "Reset"
    THEN [fg |-> ColorReset, bg |-> ColorDefault, bold |-> FALSE]
    ELSE [fg |-> ColorDefault, bg |-> ColorDefault, bold |-> style = StyleBold]

(***************************************************************************)
(* The renderer.  t is the screen record, who the thread that runs.        *)
(***************************************************************************)
hideCursor(t, who) == TPuts(t, who, "cap", ti.HideCursor)

showCursor(t, who) ==
    LET x == t.cursorx
        y == t.cursory
    IN  IF x < 0 \/ y < 0 \/ x >= t.cells.w \/ y >= t.cells.h
        THEN hideCursor(t, who)
        ELSE [TPuts(TPuts(t, who, "goto", TGoto(x, y)), who, "cap", ti.ShowCursor)
                 EXCEPT !.cx = x, !.cy = y]

clearScreen(t, who) ==
    LET d == Decompose(t.style)
    IN  [TPuts(sendFgBg(t, who, d.fg, d.bg), who, "cap", ti.Clear) EXCEPT !.clear = FALSE]

\* the cell is left dirty
drawCellKeepDirty(cb, x, y) == cb

\* t.cells.SetDirty(x, y, false) at the end of drawCell
drawCellClean(cb, x, y) == CellsSetDirty(cb, x, y, FALSE)

\* [t, width]; w is t.w
drawCell(t, who, x, y, w) ==
    LET c     == CellsGet(t.cells, x, y)
        width == RuneWidth(c.ch)
    IN  IF ~c.dirty THEN [t |-> t, width |-> width]
        ELSE
        LET t1    == IF t.cy # y \/ t.cx # x
                     THEN [TPuts(t, who, "goto", TGoto(x, y)) EXCEPT !.cx = x, !.cy = y]
                     ELSE t
            style == IF c.style = StyleDefault THEN t.style ELSE c.style
            t2    == IF style # t1.curstyle
                     THEN LET d == Decompose(style)
                              a == sendFgBg(TPuts(t1, who, "attr", ti.AttrOff), who,
                                            d.fg, d.bg)
                              b == IF d.bold
                                   THEN TPuts(a, who, "attr", ti.Bold) ELSE a
                          IN  [b EXCEPT !.curstyle = style]
                     ELSE t1
            str   == encodeRune(c.ch)
            nofw  == width > 1 /\ str = <<63>>
            t3    == IF nofw THEN [t2 EXCEPT !.cx = -1] ELSE t2
            fits  == ~(x > w - width)
            wd    == IF fits THEN width ELSE 1
            t4    == writeString(t3, who,
                         IF ~fits THEN <<32>> ELSE IF nofw THEN <<63, 32>> ELSE str)
        IN  [t |-> [t4 EXCEPT !.cx = IF wd > 1 THEN -1 ELSE @ + wd,
                              !.cells = drawCellClean(@, x, y)],
             width |-> wd]

RECURSIVE drawLoop(_, _, _, _, _, _)
\* the loops of draw from cell (x, y) on
drawLoop(t, who, x, y, w, h) ==
    IF y >= h THEN t
    ELSE IF x >= w THEN drawLoop(t, who, 0, y + 1, w, h)
    ELSE LET d  == drawCell(t, who, x, y, w)
             t1 == IF d.width > 1 /\ x + 1 < w
                   THEN [d.t EXCEPT !.cells = CellsSetDirty(@, x + 1, y, TRUE)]
                   ELSE d.t
         IN  drawLoop(t1, who, x + d.width, y, w, h)

\* draw up to its last statement: the frame is in t.buf
draw(t, who, w, h) ==
    LET t0 == [t EXCEPT !.cx = -1, !.cy = -1, !.buf = <<>>, !.buffering = TRUE]
        t1 == hideCursor(t0, who)
        t2 == IF t1.clear THEN clearScreen(t1, who) ELSE t1
    IN  showCursor(drawLoop(t2, who, 0, 0, w, h), who)

\* t.buf.WriteTo(t.out), one Write call when the buffer is not empty, and the
\* deferred t.buffering = false
WriteTo(t, who) ==
    [t EXCEPT !.out = IF t.buf = <<>> THEN @ ELSE Append(@, [by |-> who, data |-> t.buf]),
              !.buf = <<>>,
              !.buffering = FALSE]

(***************************************************************************)
(* Initial state: Init has returned.  Its resize() has posted the first    *)
(* Resize event, the key timer runs, nothing has been read.                *)
(***************************************************************************)
NoCall == [fn |-> "", key |-> 0, replace |-> 0, mod |-> {}, val |-> <<>>]

\* the pump and its environment after Init
InitPump(S, P) ==
    /\ stream \in S
    /\ input = stream
    /\ reader = "run"
    /\ keychan = <<>>
    /\ buf = <<>>
    /\ escbuf = <<>>
    /\ escaped = FALSE
    /\ wasbtn = FALSE
    /\ buttondn = FALSE
    /\ off = 0
    /\ since = 0
    /\ paste \in P
    /\ rawseq = <<>>
    /\ keytimer = Quiet
    /\ keyexpire = 0
    /\ pc = "select"
    /\ pending = <<>>
    /\ size = InitSize
    /\ winsize = size
    /\ evch = <<NewEventResize(size[1], size[2])>>
    /\ sigwinch = 0
    /\ nwin = 0
    /\ emitted = <<>>
    /\ dropped = <<>>
    /\ delivered = <<>>
    /\ expired = FALSE

\* the key table that NewTerminfoScreen has built
InitKeys ==
    /\ kt = prepareKeys
    /\ call = NoCall

\* the operation record before any call
NoOp == [fn |-> "", arg |-> <<>>, err |-> "nil", prev |-> ""]

\* the screen after Init: an empty cell buffer of the size of the window, all
\* of it dirty, nothing drawn, the mutex free
\* the screen of a terminal with the colour capabilities caps; env is false
\* when the environment disables true colour
NewScreen(caps, env) ==
    [fini |-> FALSE, style |-> StyleDefault, curstyle |-> StyleDefault,
     clear |-> FALSE, cx |-> -1, cy |-> -1, cursorx |-> -1, cursory |-> -1,
     buffering |-> FALSE, fallback |-> {},
     cells |-> CellsInvalidate(CellsResize([w |-> 0, h |-> 0, c |-> <<>>],
                                           InitSize[1], InitSize[2])),
     buf |-> <<>>, out |-> <<>>,
     ti |-> caps, truecolor |-> (Truecolor(caps) /\ env),
     palette |-> Palette(caps), colors |-> BuiltinColors(caps), sent |-> {}]

\* the rest of the screen after Init
InitRest ==
    /\ mu = "free"
    /\ thr = [c \in Callers |-> "idle"]
    /\ quit = FALSE
    /\ indoneq = FALSE
    /\ finiOnce = "new"
    /\ teardowns = 0
    /\ closes = 0
    /\ op = NoOp
    /\ nops = 0
    /\ nilret = FALSE

InitScr == scr = NewScreen(ColourCaps(ti), TRUE) /\ InitRest

InitWith(S, P) == InitPump(S, P) /\ InitKeys /\ registered = <<>> /\ InitScr

Init == InitWith(Streams, {FALSE}) \/ InitWith(PasteStreams, {TRUE})

(***************************************************************************)
(* The event queue.                                                        *)
(***************************************************************************)
\* PostEvent: [q, ok], the event is dropped when the queue is full
PostEvent(q, ev) ==
    IF Len(q) < EvchCap THEN [q |-> Append(q, ev), ok |-> TRUE]
    ELSE [q |-> q, ok |-> FALSE]

\* PostEventWait can proceed
CanPostWait(q) == Len(q) < EvchCap

\* the event jumps the queue
PostEventFront(q, ev) == <<ev>> \o q

\* PostEventWait, once it can proceed
PostEventWait(q, ev) == Append(q, ev)

PollEvent ==
    /\ evch # <<>>
    /\ delivered' = Append(delivered, Head(evch))
    /\ evch' = Tail(evch)
    /\ UNCHANGED <<stream, expired, input, reader, keychan, buf, escbuf, escaped, wasbtn,
                   buttondn, off, since, paste, rawseq, keytimer, keyexpire, pc,
                   pending, size, winsize, sigwinch, nwin, emitted, dropped>>
    /\ UNCHANGED facade

(***************************************************************************)
(* inputLoop                                                               *)
(***************************************************************************)
\* a read returns the next n bytes, which are sent to mainLoop
Read ==
    /\ reader = "run"
    /\ input # <<>>
    /\ Len(keychan) < Min(KeychanCap, MaxBacklog)
    /\ \E n \in 1..Len(input) :
          /\ keychan' = Append(keychan, Take(input, n))
          /\ input' = Drop(input, n)
    /\ UNCHANGED <<stream, expired, reader, buf, escbuf, escaped, wasbtn, buttondn, off,
                   since, paste, rawseq, keytimer, keyexpire, pc, pending, evch,
                   size, winsize, sigwinch, nwin, emitted, dropped, delivered>>
    /\ UNCHANGED facade

\* a read fails: the error is posted without waiting and the task ends
ReadError ==
    /\ reader = "run"
    /\ LET r == PostEvent(evch, NewEventError)
       IN  /\ evch' = r.q
           /\ dropped' = IF r.ok THEN dropped ELSE Append(dropped, NewEventError)
    /\ reader' = "dead"
    /\ UNCHANGED <<stream, expired, input, keychan, buf, escbuf, escaped, wasbtn, buttondn,
                   off, since, paste, rawseq, keytimer, keyexpire, pc, pending,
                   size, winsize, sigwinch, nwin, emitted, delivered>>
    /\ UNCHANGED facade

(***************************************************************************)
(* resize and finish.                                                      *)
(***************************************************************************)
\* resize: [t, size, evch, dropped]
resize(t, sz, wsz, q, dr) ==
    IF wsz # sz
    THEN LET ev == NewEventResize(wsz[1], wsz[2])
             r  == PostEvent(q, ev)
         IN  [t       |-> [t EXCEPT !.cx = -1, !.cy = -1,
                               !.cells = CellsInvalidate(CellsResize(@, wsz[1], wsz[2]))],
              size    |-> wsz,
              evch    |-> r.q,
              dropped |-> IF r.ok THEN dr ELSE Append(dr, ev)]
    ELSE [t |-> t, size |-> sz, evch |-> q, dropped |-> dr]

RECURSIVE TPutsAll(_, _, _)
TPutsAll(t, who, ss) ==
    IF ss = <<>> THEN t ELSE TPutsAll(TPuts(t, who, "cap", Head(ss)), who, Tail(ss))

\* finish, between Lock and Unlock, up to t.fini = true
finish(t, who) ==
    LET t1 == [t EXCEPT !.cells = CellsResize(@, 0, 0)]
        t2 == TPutsAll(t1, who, <<ti.ShowCursor, ti.AttrOff, ti.Clear, ti.ExitCA,
                                  ti.ExitKeypad, MouseMode(0), pasteDisable>>)
    IN  [t2 EXCEPT !.curstyle = styleInvalid, !.clear = FALSE, !.fini = TRUE]

(***************************************************************************)
(* mainLoop and scanInput                                                  *)
(***************************************************************************)
\* the parser state of the screen with b as the buffer
ParserState(b) ==
    [buf |-> b, escbuf |-> escbuf, escaped |-> escaped, wasbtn |-> wasbtn,
     buttondn |-> buttondn, evs |-> <<>>, off |-> off, since |-> since]

Config(first) ==
    [paste |-> paste, rawseq |-> rawseq, first |-> first, w |-> size[1], h |-> size[2],
     kc |-> kt.keycodes]

\* Lock succeeds
CanLockAlways(who) == TRUE

\* t.Lock() can proceed
CanLock(who) == mu = "free"

\* the key timer is left stopped
RearmNever(b) == -1

\* the key timer after Stop, the drain of its channel and, when bytes remain,
\* Reset
Rearm(b) == IF b # <<>> THEN Quiet ELSE -1

\* the screen takes the parser state q that a scan returned; the branch of
\* mainLoop goes on to post the events (pc becomes post) or, without events,
\* ends with the timer handling
Scanned(q, post) ==
    /\ buf' = q.buf
    /\ escbuf' = q.escbuf
    /\ escaped' = q.escaped
    /\ wasbtn' = q.wasbtn
    /\ buttondn' = q.buttondn
    /\ off' = q.off
    /\ since' = q.since
    /\ pending' = q.evs
    /\ emitted' = emitted \o q.evs
    /\ IF q.evs = <<>>
       THEN pc' = "select" /\ keytimer' = Rearm(q.buf)
       ELSE pc' = post /\ keytimer' = IF post = "postTimer" THEN -1 ELSE keytimer

\* case chunk := <-t.keychan, up to the first event that scanInput posts; the
\* scan runs between Lock and Unlock
PumpChunk ==
    /\ pc = "select"
    /\ keychan # <<>>
    /\ CanLock("pump")
    /\ keychan' = Tail(keychan)
    /\ keyexpire' = Quiet
    /\ \E first \in BOOLEAN :
          Scanned(collectEventsFromInput(ParserState(buf \o Head(keychan)),
                                         FALSE, Config(first)), "postChunk")
    /\ UNCHANGED <<stream, expired, input, reader, paste, rawseq, evch, size, winsize,
                   sigwinch, nwin, dropped, delivered>>
    /\ UNCHANGED facade

\* case <-t.keytimer.C, up to the first event that scanInput posts
PumpTimer ==
    /\ pc = "select"
    /\ keytimer = 0
    /\ (buf # <<>> /\ keyexpire = 0) => CanLock("pump")
    /\ expired' = (expired \/ (buf # <<>> /\ keyexpire = 0))
    /\ IF buf # <<>> /\ keyexpire = 0
       THEN \E first \in BOOLEAN :
               Scanned(collectEventsFromInput(ParserState(buf), TRUE, Config(first)),
                       "postTimer")
       ELSE /\ keytimer' = Rearm(buf)
            /\ UNCHANGED <<buf, escbuf, escaped, wasbtn, buttondn, off, since,
                           pending, emitted, pc>>
    /\ UNCHANGED <<stream, input, reader, keychan, paste, rawseq, keyexpire, evch,
                   size, winsize, sigwinch, nwin, dropped, delivered>>
    /\ UNCHANGED facade

\* scanInput posts every event without waiting
PostNoWait ==
    /\ pc \in {"postChunk", "postTimer"}
    /\ LET r == PostEvent(evch, Head(pending))
       IN  /\ evch' = r.q
           /\ dropped' = IF r.ok THEN dropped ELSE Append(dropped, Head(pending))
    /\ pending' = Tail(pending)
    /\ IF Tail(pending) = <<>>
       THEN /\ pc' = "select"
            /\ keytimer' = IF pc = "postChunk" \/ buf # <<>> THEN Rearm(buf) ELSE keytimer
       ELSE UNCHANGED <<pc, keytimer>>
    /\ UNCHANGED <<stream, expired, input, reader, keychan, buf, escbuf, escaped, wasbtn,
                   buttondn, off, since, paste, rawseq, keyexpire, size, winsize,
                   sigwinch, nwin, emitted, delivered>>
    /\ UNCHANGED facade

\* scanInput posts the next event of the scan: a mouse event without waiting,
\* any other once the queue has room; after the last one the branch of mainLoop
\* ends with the timer handling
Post ==
    /\ pc \in {"postChunk", "postTimer"}
    /\ LET ev == Head(pending) IN
       IF ev.type = "Mouse"
       THEN LET r == PostEvent(evch, ev)
            IN  /\ evch' = r.q
                /\ dropped' = IF r.ok THEN dropped ELSE Append(dropped, ev)
       ELSE /\ CanPostWait(evch)
            /\ evch' = PostEventWait(evch, ev)
            /\ dropped' = dropped
    /\ pending' = Tail(pending)
    /\ IF Tail(pending) = <<>>
       THEN /\ pc' = "select"
            /\ keytimer' = IF pc = "postChunk" \/ buf # <<>> THEN Rearm(buf) ELSE keytimer
       ELSE UNCHANGED <<pc, keytimer>>
    /\ UNCHANGED <<stream, expired, input, reader, keychan, buf, escbuf, escaped, wasbtn,
                   buttondn, off, since, paste, rawseq, keyexpire, size, winsize,
                   sigwinch, nwin, emitted, delivered>>
    /\ UNCHANGED facade

\* case <-t.sigwinch: under the mutex, resize() takes the size of the window
\* and posts a Resize event without waiting when the size has changed; then
\* the whole screen is drawn anew and written
PumpResize ==
    /\ pc = "select"
    /\ sigwinch > 0
    /\ CanLock("pump")
    /\ sigwinch' = sigwinch - 1
    /\ LET r == resize([scr EXCEPT !.cx = -1, !.cy = -1], size, winsize, evch, dropped)
           t == [r.t EXCEPT !.cells = CellsInvalidate(@)]
       IN  /\ size' = r.size
           /\ evch' = r.evch
           /\ dropped' = r.dropped
           /\ scr' = WriteTo(draw(t, "pump", r.size[1], r.size[2]), "pump")
    /\ UNCHANGED <<stream, expired, input, reader, keychan, buf, escbuf, escaped, wasbtn,
                   buttondn, off, since, paste, rawseq, keytimer, keyexpire, pc,
                   pending, winsize, nwin, emitted, delivered>>
    /\ UNCHANGED <<keyvars, registered, mu, thr, quit, indoneq, finiOnce, teardowns,
                   closes, op, nops, nilret>>

(***************************************************************************)
(* The environment and the application.                                    *)
(***************************************************************************)
\* time passes
Tick ==
    /\ keytimer > 0 \/ keyexpire > 0
    /\ keytimer' = IF keytimer > 0 THEN Max(keytimer - TickMs, 0) ELSE keytimer
    /\ keyexpire' = Max(keyexpire - TickMs, 0)
    /\ UNCHANGED <<stream, expired, input, reader, keychan, buf, escbuf, escaped, wasbtn,
                   buttondn, off, since, paste, rawseq, pc, pending, evch, size,
                   winsize, sigwinch, nwin, emitted, dropped, delivered>>
    /\ UNCHANGED facade

\* the window is resized and SIGWINCH is delivered to t.sigwinch
WinChange ==
    /\ nwin < MaxResize
    /\ nwin' = nwin + 1
    /\ winsize' \in Sizes \ {winsize}
    /\ sigwinch' = Min(sigwinch + 1, SigwinchCap)
    /\ UNCHANGED <<stream, expired, input, reader, keychan, buf, escbuf, escaped, wasbtn,
                   buttondn, off, since, paste, rawseq, keytimer, keyexpire, pc,
                   pending, evch, size, emitted, dropped, delivered>>
    /\ UNCHANGED facade

RegisterRawSeq ==
    /\ input = stream
    /\ Len(rawseq) < MaxRawSeq
    /\ \E r \in RawSeqs :
          /\ rawseq' = Append(rawseq, r)
          /\ registered' = Append(registered, r)
    /\ UNCHANGED <<stream, expired, input, reader, keychan, buf, escbuf, escaped, wasbtn,
                   buttondn, off, since, paste, keytimer, keyexpire, pc, pending,
                   evch, size, winsize, sigwinch, nwin, emitted, dropped, delivered>>
    /\ UNCHANGED <<keyvars, scrvars>>

Next ==
    \/ Read
    \/ PumpChunk
    \/ PumpTimer
    \/ Post
    \/ PollEvent
    \/ Tick
    \/ RegisterRawSeq

Spec == Init /\ [][Next]_vars

(***************************************************************************)
(* The event queue under load: a stream long enough to fill t.evch, window *)
(* size changes and a failing read.                                        *)
(***************************************************************************)
QStreams == {<<97, 97, 97, 97, 97, 97, 97, 97, 97>> \o X10Press \o <<98>>}

InitQ == InitWith(QStreams, {FALSE})

\* the whole stream arrives within the quiet time
NextQ ==
    \/ Read
    \/ ReadError
    \/ PumpChunk
    \/ PumpResize
    \/ Post
    \/ PollEvent
    \/ WinChange

\* mainLoop goes on posting when the queue has room, and the application keeps
\* calling PollEvent
SpecQ == InitQ /\ [][NextQ]_vars /\ WF_vars(Post) /\ WF_vars(PollEvent)

(***************************************************************************)
(* Steps of mainLoop, as seen on the variables.                            *)
(***************************************************************************)
\* mainLoop takes a chunk from t.keychan
ChunkStep == pc = "select" /\ Len(keychan') < Len(keychan)

\* mainLoop takes the tick of the key timer
TimerStep == pc = "select" /\ keytimer = 0 /\ keytimer' # 0 /\ keychan' = keychan

\* the tick finds bytes in the buffer and the quiet time over
TimerScan == TimerStep /\ buf # <<>> /\ keyexpire = 0

\* the buffer that the scan of this step starts on
ScanBuf == IF ChunkStep THEN buf \o Head(keychan) ELSE buf

\* the events that this step emits
NewEvs == SubSeq(emitted', Len(emitted) + 1, Len(emitted'))

IsKey(e, key, mod) == e.type = "Key" /\ e.key = key /\ e.mod = mod

(***************************************************************************)
(* C1                                                                      *)
(***************************************************************************)
\* C1: while the buffer holds exactly the byte ESC and no chunk is taken, no
\* step emits an event or changes the buffer, except the step that takes the
\* tick of the key timer: that one emits exactly one event, Key(Esc) without
\* modifier, and leaves the buffer empty
C1_LoneEsc ==
    [][ (buf = <<27>> /\ keychan' = keychan) =>
           IF TimerStep
           THEN /\ keyexpire = 0
                /\ Len(NewEvs) = 1
                /\ IsKey(NewEvs[1], KeyEsc, ModNone)
                /\ buf' = <<>>
           ELSE emitted' = emitted /\ buf' = buf ]_vars

\* the lone ESC has timed out and become Key(Esc)
C1_Witness ==
    /\ stream = <<27>>
    /\ expired
    /\ Len(emitted) = 1
    /\ IsKey(emitted[1], KeyEsc, ModNone)
    /\ buf = <<>>

(***************************************************************************)
(* C2                                                                      *)
(***************************************************************************)
CompositeType(s) ==
    IF HasPrefix(s, pasteBegin) \/ HasPrefix(s, pasteOSC52Begin) THEN "Paste"
    ELSE IF s \in {SgrPress, SgrRelease, X10Press} THEN "Mouse"
    ELSE "Key"

\* nothing of the composite stream has been emitted yet, or all of it as one
\* event of its type
OneEvent ==
    \/ emitted = <<>> /\ off = 0
    \/ /\ Len(emitted) = 1
       /\ emitted[1].type = CompositeType(stream)
       /\ emitted[1].pos = 0
       /\ emitted[1].n = Len(stream)
       /\ buf = <<>>

\* C2 as stated: a composite sequence is emitted as exactly one event of its
\* type that covers all its bytes, however its bytes are divided into chunks
\* and whenever the key timer fires
C2_AtomicAlways == stream \in Composites => OneEvent

\* C2: a composite sequence is emitted as exactly one event of its type that
\* covers all its bytes, however its bytes are divided into chunks, as long as
\* the quiet time has not expired on a buffered part of it
C2_AtomicUnlessExpired == (stream \in Composites /\ ~expired) => OneEvent

\* a bracketed paste has been delivered as one Paste event, no quiet time
\* having expired on a part of it
C2_Witness ==
    /\ stream = BracketedPaste(<<13>>)
    /\ ~expired
    /\ Len(emitted) = 1
    /\ emitted[1].type = "Paste"
    /\ Len(delivered) = 2
    /\ delivered[2] = emitted[1]

(***************************************************************************)
(* C3                                                                      *)
(***************************************************************************)
\* C3: a scan of a buffer that starts with ESC[200~, a payload and ESC[201~
\* emits first a Paste event whose text is the payload with every CR replaced
\* by LF and which covers exactly the bytes through the end marker; the bytes
\* after it are lost to no one: later events of the scan start after the
\* marker, the rest stays in the buffer
C3_BracketedPaste ==
    [][ ( /\ ChunkStep \/ TimerScan
          /\ HasPrefix(ScanBuf, pasteBegin)
          /\ Index(ScanBuf, pasteEnd) >= Len(pasteBegin) ) =>
           LET idx     == Index(ScanBuf, pasteEnd)
               payload == SubSeq(ScanBuf, Len(pasteBegin) + 1, idx)
               end     == off + idx + Len(pasteEnd)
           IN  /\ NewEvs # <<>>
               /\ NewEvs[1].type = "Paste"
               /\ NewEvs[1].text =
                     [i \in 1..Len(payload) |-> IF payload[i] = 13 THEN 10 ELSE payload[i]]
               /\ NewEvs[1].pos = off
               /\ NewEvs[1].n = idx + Len(pasteEnd)
               /\ \A i \in 2..Len(NewEvs) :
                     NewEvs[i].type # "Paste" /\ NewEvs[i].pos >= end
               /\ off' >= end
               /\ off' + Len(buf') = off + Len(ScanBuf) ]_vars

\* the paste of a CR has become Paste{LF}, and the byte after the end marker
\* a key of its own
C3_Witness ==
    /\ stream = BracketedPaste(<<13>>) \o <<97>>
    /\ Len(emitted) = 2
    /\ emitted[1].type = "Paste"
    /\ emitted[1].text = <<10>>
    /\ emitted[1].n = 13
    /\ IsKey(emitted[2], KeyRune, ModNone)
    /\ emitted[2].pos = 13

(***************************************************************************)
(* C4                                                                      *)
(***************************************************************************)
\* C4 as stated: the bytes of a registered key sequence, fed to the parser in
\* its initial state with paste mode off, yield exactly one event, the Key
\* event with the key and the modifiers of the table entry, and are all
\* consumed
C4_KeyTable ==
    (stream \in KeySeqs /\ ~paste /\ ~expired /\ emitted # <<>>) =>
        /\ Len(emitted) = 1
        /\ IsKey(emitted[1], keycodes[stream].key, keycodes[stream].mod)
        /\ emitted[1].n = Len(stream)
        /\ buf = <<>>

(***************************************************************************)
(* C5                                                                      *)
(***************************************************************************)
\* the whole of a proper prefix of a key sequence was in the buffer when the
\* quiet time expired, and the scan of that tick has just returned
PrefixTimedOut ==
    /\ stream \in KeyPrefixes
    /\ pc = "postTimer"
    /\ pending = emitted
    /\ off = Len(stream)

\* C5 as stated: a proper prefix of a key sequence followed by the quiet time
\* yields exactly one event, Key(Esc) for ESC alone and a Raw event with the
\* bytes of the prefix otherwise
C5_PrefixRaw ==
    PrefixTimedOut =>
        /\ Len(emitted) = 1
        /\ IF stream = <<27>>
           THEN IsKey(emitted[1], KeyEsc, ModNone)
           ELSE emitted[1].type = "Raw" /\ emitted[1].text = stream

\* C5: with paste mode off and no registered raw sequence at the start of the
\* prefix, a proper prefix of a key sequence followed by the quiet time yields
\* Key(Esc) for ESC alone; otherwise the ESC is consumed without an event and
\* every byte after it yields one Key(Rune), the first with Alt, none a Raw
C5_PrefixKeys ==
    (PrefixTimedOut /\ ~paste /\ RawMatch(rawseq, stream) = {}) =>
        IF stream = <<27>>
        THEN Len(emitted) = 1 /\ IsKey(emitted[1], KeyEsc, ModNone)
        ELSE /\ Len(emitted) = Len(stream) - 1
             /\ \A i \in 1..Len(emitted) :
                   /\ IsKey(emitted[i], KeyRune, IF i = 1 THEN ModAlt ELSE ModNone)
                   /\ emitted[i].ch = stream[i + 1]

\* ESC [ 1 has timed out and become Alt-[ and 1
C5_Witness ==
    /\ PrefixTimedOut
    /\ stream = <<27, 91, 49>>
    /\ Len(emitted) = 2
    /\ IsKey(emitted[1], KeyRune, ModAlt)
    /\ emitted[1].ch = 91

(***************************************************************************)
(* C6                                                                      *)
(***************************************************************************)
NoEsc(s) == \A i \in 1..Len(s) : s[i] # 27

\* the width of the first rune of s as a range over a string sees it: a byte
\* that starts no valid encoding is a rune of width 1
Width(s) == IF RuneLen(s) = 0 THEN 1 ELSE RuneLen(s)

RECURSIVE Codepoints(_)
Codepoints(s) ==
    IF s = <<>> THEN <<>>
    ELSE <<IF RuneLen(s) = 0 THEN RuneError ELSE DecodeRune(Take(s, RuneLen(s)))>>
         \o Codepoints(Drop(s, Width(s)))

\* everything the terminal sent has been read and scanned
AllRead == input = <<>> /\ keychan = <<>> /\ pc = "select"

\* the events emitted are the Key(Rune) events of the codepoints consumed, in
\* order, and nothing stays in the buffer once all is read
RunesOnly ==
    LET cps == Codepoints(Take(stream, off))
    IN  /\ Len(emitted) = Len(cps)
        /\ \A i \in 1..Len(emitted) :
              /\ IsKey(emitted[i], KeyRune, ModNone)
              /\ emitted[i].ch = cps[i]
        /\ \A i \in 1..(Len(emitted) - 1) : emitted[i].pos < emitted[i + 1].pos
        /\ AllRead => (buf = <<>> /\ off = Len(stream))

\* C6 as stated: a stream without an ESC byte yields exactly one Key(Rune) per
\* encoded codepoint, in order, no other event, and is consumed entirely
C6_RunesAlways == NoEsc(stream) => RunesOnly

\* bytes from 0x20 to 0x7F and complete valid multi-byte encodings only, none
\* of them the encoding of U+FFFD
ValidText(s) ==
    /\ s # <<>>
    /\ \A i \in 1..Len(s) : s[i] >= 32
    /\ ValidPrefixLen(s) = Len(s)
    /\ \A i \in 1..Len(Codepoints(s)) : Codepoints(s)[i] # RuneError

\* C6: a stream of bytes from 0x20 to 0x7F and of complete valid multi-byte
\* encodings other than that of U+FFFD, read with paste mode off and without the quiet time expiring on
\* an incomplete encoding, yields exactly one Key(Rune) per codepoint, in
\* order, no other event, and is consumed entirely
C6_RunesOfText == (ValidText(stream) /\ ~paste /\ ~expired) => RunesOnly

\* the euro sign and a tilde have become two Key(Rune) events
C6_Witness ==
    /\ stream = <<226, 130, 172, 126>>
    /\ ~expired
    /\ AllRead
    /\ Len(emitted) = 2
    /\ emitted[1].ch = 8364
    /\ emitted[2].ch = 126

(***************************************************************************)
(* C7                                                                      *)
(***************************************************************************)
\* C7: the set sequence that SetClipboard(t, "c") writes has the form
\* ESC ] 5 2 ; c ; ... ESC \ and, read back without the quiet time expiring on
\* a part of it, yields exactly one event, a Paste whose text is t and which
\* covers the whole sequence
C7_RoundTrip ==
    \A t \in Texts :
        stream = EchoOf(t) =>
            /\ HasPrefix(stream, pasteOSC52Begin \o <<99, 59>>)
            /\ Drop(stream, Len(stream) - 2) = pasteOSC52End
            /\ (~expired /\ emitted # <<>>) =>
                  /\ Len(emitted) = 1
                  /\ emitted[1].type = "Paste"
                  /\ emitted[1].text = t
                  /\ emitted[1].pos = 0
                  /\ emitted[1].n = Len(stream)
                  /\ buf = <<>>
            /\ (~expired /\ AllRead) => emitted # <<>>

\* a text of ESC, backslash and CR has come back from the clipboard
C7_Witness ==
    /\ stream = EchoOf(<<27, 92, 13>>)
    /\ Len(emitted) = 1
    /\ emitted[1].type = "Paste"
    /\ emitted[1].text = <<27, 92, 13>>
    /\ Len(delivered) = 2

(***************************************************************************)
(* C8                                                                      *)
(***************************************************************************)
\* C8 as stated: the raw bytes of every Key, Mouse and Paste event are the
\* bytes of the stream that were consumed to produce it, with or without the
\* ESC bytes consumed before it since the last event
C8_RawBytes ==
    \A i \in 1..Len(emitted) :
        LET e == emitted[i] IN
        e.type \in {"Key", "Mouse", "Paste"} =>
            \/ e.raw = SubSeq(stream, e.pos + 1, e.pos + e.n)
            \/ e.raw = SubSeq(stream, e.since + 1, e.pos + e.n)

(***************************************************************************)
(* C9                                                                      *)
(***************************************************************************)
InputEvent(e) == e.type \in {"Key", "Paste", "Raw"}

\* C9: of two Key, Paste or Raw events that PollEvent has returned, the one
\* returned first was made of bytes that all precede the bytes of the other
C9_InOrder ==
    \A i, j \in 1..Len(delivered) :
        (i < j /\ InputEvent(delivered[i]) /\ InputEvent(delivered[j])) =>
            /\ delivered[i].pos + delivered[i].n <= delivered[j].since
            /\ delivered[j].since <= delivered[j].pos

\* PollEvent has returned Alt-[ and then 1 for ESC [ 1 timed out
C9_Witness ==
    /\ stream = <<27, 91, 49>>
    /\ Len(delivered) = 3
    /\ delivered[2].ch = 91
    /\ delivered[3].ch = 49

InputEvents(evs) == SelectSeq(evs, InputEvent)

KtKeys == {KeyUp, KeyDown, KeyHome}

KtMods == {ModNone, ModShift}

KtVals == {<<>>, <<27, 79, 65>>, <<27, 91, 65>>}

InitK ==
    /\ InitPump({<<97>>}, {FALSE})
    /\ kt = [keycodes |-> << >>, keyexist |-> {}]
    /\ call = NoCall
    /\ registered = <<>>
    /\ InitScr

PrepareKeyMod ==
    /\ \E key \in KtKeys, mod \in KtMods, val \in KtVals :
          /\ kt' = prepareKeyMod(kt, key, mod, val)
          /\ call' = [fn |-> "prepareKeyMod", key |-> key, replace |-> 0,
                      mod |-> mod, val |-> val]
    /\ UNCHANGED <<stream, input, reader, keychan, buf, escbuf, escaped, wasbtn,
                   buttondn, off, since, paste, rawseq, keytimer, keyexpire, pc,
                   pending, evch, size, winsize, sigwinch, nwin, emitted, dropped,
                   delivered, expired, registered, scrvars>>

PrepareKeyModReplace ==
    /\ \E key \in KtKeys, replace \in KtKeys, mod \in KtMods, val \in KtVals :
          /\ kt' = prepareKeyModReplace(kt, key, replace, mod, val)
          /\ call' = [fn |-> "prepareKeyModReplace", key |-> key, replace |-> replace,
                      mod |-> mod, val |-> val]
    /\ UNCHANGED <<stream, input, reader, keychan, buf, escbuf, escaped, wasbtn,
                   buttondn, off, since, paste, rawseq, keytimer, keyexpire, pc,
                   pending, evch, size, winsize, sigwinch, nwin, emitted, dropped,
                   delivered, expired, registered, scrvars>>

NextK == PrepareKeyMod \/ PrepareKeyModReplace

SpecK == InitK /\ [][NextK]_vars

(***************************************************************************)
(* C17                                                                     *)
(***************************************************************************)
\* C17: a call that adds to the key table keeps every entry, changes the
\* mapping of an existing sequence only when it is prepareKeyModReplace for
\* that sequence and the entry's key is the replace key, and inserts only its
\* own sequence, which is not empty; a non-empty absent sequence is inserted
\* with the key and the modifiers of the call
C17_EntriesKept ==
    [][ (kt' # kt \/ call' # call) =>
          /\ \A s \in DOMAIN kt.keycodes :
                /\ s \in DOMAIN kt'.keycodes
                /\ kt'.keycodes[s] # kt.keycodes[s] =>
                      /\ call'.fn = "prepareKeyModReplace"
                      /\ call'.val = s
                      /\ kt.keycodes[s].key = call'.replace
          /\ \A s \in DOMAIN kt'.keycodes \ DOMAIN kt.keycodes :
                s = call'.val /\ s # <<>>
          /\ (call'.val # <<>> /\ call'.val \notin DOMAIN kt.keycodes) =>
                kt'.keycodes[call'.val] = [key |-> call'.key, mod |-> call'.mod] ]_vars

\* the only entry of the table, inserted for KeyUp, has been replaced by one
\* for KeyHome
C17_Witness ==
    /\ call.fn = "prepareKeyModReplace"
    /\ call.replace = KeyUp
    /\ call.key = KeyHome
    /\ DOMAIN kt.keycodes = {call.val}
    /\ kt.keycodes[call.val].key = KeyHome
    /\ kt.keyexist = {KeyUp, KeyHome}

(***************************************************************************)
(* Raw sequences registered before Init, as the screen is configured, or   *)
(* after it.  Init makes t.rawseq anew: what was registered before it is   *)
(* not in t.rawseq afterwards.                                             *)
(***************************************************************************)
RStreams == {<<27, 91, 90>>, <<27, 91, 90, 97>>, <<97, 27, 91, 90>>}

InitR ==
    /\ InitPump(RStreams, {FALSE})
    /\ InitKeys
    /\ registered \in {<<>>} \cup {<<r>> : r \in RawSeqs}
    /\ InitScr

SpecR == InitR /\ [][Next]_vars

(***************************************************************************)
(* C19                                                                     *)
(***************************************************************************)
\* C19 as stated: when a scan finds the buffer starting with a sequence that
\* was registered with RegisterRawSeq, the first event of the scan is the Raw
\* event of that sequence, made of exactly its bytes, unless the scan stops to
\* wait for more bytes and leaves the buffer as it is
C19_RawAlways ==
    [][ \A i \in 1..Len(registered) :
          ((ChunkStep \/ TimerScan) /\ HasPrefix(ScanBuf, registered[i])) =>
             \/ NewEvs = <<>> /\ buf' = ScanBuf
             \/ /\ NewEvs # <<>>
                /\ NewEvs[1].type = "Raw"
                /\ NewEvs[1].text = registered[i]
                /\ NewEvs[1].n = Len(registered[i]) ]_vars

(***************************************************************************)
(* C20                                                                     *)
(***************************************************************************)
\* C20 as stated: after the parser emits any event other than Key(Esc) the
\* parser is no longer escaped (esc is t.escaped at the return of the
\* sub-parser that emitted the event), so that only the event that follows a
\* consumed ESC at once can take Alt from it
C20_EscapedCleared ==
    \A i \in 1..Len(emitted) :
       ~IsKey(emitted[i], KeyEsc, ModNone) => ~emitted[i].esc

(***************************************************************************)
(* The facade: operations that threads of the application call.  An        *)
(* operation that holds the mutex from its first statement to its last is  *)
(* one step; Show and Sync are two, the frame drawn into t.buf and the     *)
(* frame written, with the mutex held in between; Fini is the call and the *)
(* run of finish.                                                          *)
(***************************************************************************)
\* everything of the pump but pc, size, evch and dropped
parsevars ==
    <<stream, input, reader, keychan, buf, escbuf, escaped, wasbtn, buttondn, off,
      since, paste, rawseq, keytimer, keyexpire, pending, winsize, sigwinch, nwin,
      emitted, delivered, expired>>

pumpvars == <<parsevars, pc, size, evch, dropped>>

lifevars == <<quit, indoneq, finiOnce, teardowns, closes, nilret>>

\* thread c can make a call
Idle(c) == thr[c] = "idle" /\ nops < MaxOps

\* the call is recorded
Called(fn, arg, err) ==
    /\ op' = [fn |-> fn, arg |-> arg, err |-> err, prev |-> op.fn]
    /\ nops' = nops + 1

\* an operation of thread c that runs f under the mutex
Locked(c, fn, t) ==
    /\ Idle(c)
    /\ CanLock(c)
    /\ scr' = t
    /\ Called(fn, <<>>, "nil")
    /\ UNCHANGED <<pumpvars, keyvars, registered, mu, thr, lifevars>>

\* an operation of thread c that writes the strings ss without the mutex: it
\* reads t.buffering while another thread may be writing it
Unlocked(c, fn, arg, err, ss) ==
    /\ Idle(c)
    /\ \E bf \in (IF mu = "free" THEN {scr.buffering} ELSE BOOLEAN) :
          scr' = [TPutsAll([scr EXCEPT !.buffering = bf], c, ss)
                     EXCEPT !.buffering = scr.buffering]
    /\ Called(fn, arg, err)
    /\ UNCHANGED <<pumpvars, keyvars, registered, mu, thr, lifevars>>

SetStyle ==
    \E c \in Callers, style \in Styles :
       Locked(c, "SetStyle", IF ~scr.fini THEN [scr EXCEPT !.style = style] ELSE scr)

Fill ==
    \E c \in Callers, style \in Styles :
       Locked(c, "Fill",
              IF ~scr.fini THEN [scr EXCEPT !.cells = CellsFill(@, 97, style)] ELSE scr)

Clear ==
    \E c \in Callers :
       Locked(c, "Clear",
              IF ~scr.fini THEN [scr EXCEPT !.cells = CellsFill(@, 32, scr.style)] ELSE scr)

SetContent ==
    \E c \in Callers, x \in 0..(size[1] - 1), y \in 0..(size[2] - 1),
       mainc \in Runes, style \in Styles :
       Locked(c, "SetContent",
              IF ~scr.fini
              THEN [scr EXCEPT !.cells = CellsSetContent(@, x, y, mainc, style)]
              ELSE scr)

ShowCursor ==
    \E c \in Callers, x \in 0..1 :
       Locked(c, "ShowCursor", [scr EXCEPT !.cursorx = x, !.cursory = 0])

HideCursor ==
    \E c \in Callers :
       Locked(c, "HideCursor", [scr EXCEPT !.cursorx = -1, !.cursory = -1])

RegisterRuneFallback ==
    \E c \in Callers, orig \in {19990}, fb \in {<<63, 63>>} :
       Locked(c, "RegisterRuneFallback",
              [scr EXCEPT !.fallback = {e \in @ : e.orig # orig}
                                       \cup {[orig |-> orig, fb |-> fb]}])

EnableMouse ==
    \E c \in Callers :
       Unlocked(c, "EnableMouse", <<>>, "nil",
                IF ti.Mouse # <<>> THEN <<MouseMode(1)>> ELSE <<>>)

DisableMouse ==
    \E c \in Callers :
       Unlocked(c, "DisableMouse", <<>>, "nil",
                IF ti.Mouse # <<>> THEN <<MouseMode(0)>> ELSE <<>>)

\* [err, out]
GetClipboard(register) ==
    IF register = <<>> THEN [err |-> "No register provided", out |-> <<>>]
    ELSE IF register[1] # 99 /\ register[1] # 112
    THEN [err |-> "Invalid register", out |-> <<>>]
    ELSE [err |-> "nil", out |-> pasteGet(register[1])]

\* register strings: none, c, p, x, cx
Registers == {<<>>, <<99>>, <<112>>, <<120>>, <<99, 120>>}

GetClipboardCall ==
    \E c \in Callers, register \in Registers :
       LET r == GetClipboard(register)
       IN  Unlocked(c, "GetClipboard", register, r.err,
                    IF r.out = <<>> THEN <<>> ELSE <<r.out>>)

\* the two strings that SetClipboard writes, each with a TPuts of its own
SetClipboardCall ==
    \E c \in Callers, text \in {<<104>>}, register \in Registers :
       LET r == SetClipboard(text, register)
           n == Len(pasteClear(0))
       IN  Unlocked(c, "SetClipboard", register, r.err,
                    IF r.out = <<>> THEN <<>> ELSE <<Take(r.out, n), Drop(r.out, n)>>)

\* Show and Sync up to the last statement of draw
Render(c, fn) ==
    /\ Idle(c)
    /\ CanLock(c)
    /\ Called(fn, <<>>, "nil")
    /\ LET t0 == IF fn = "Sync" THEN [scr EXCEPT !.cx = -1, !.cy = -1] ELSE scr
       IN  IF scr.fini
           THEN /\ scr' = t0
                /\ UNCHANGED <<size, evch, dropped, mu, thr>>
           ELSE LET r == resize(t0, size, winsize, evch, dropped)
                    t == IF fn = "Sync"
                         THEN [r.t EXCEPT !.clear = TRUE, !.cells = CellsInvalidate(@)]
                         ELSE r.t
                IN  /\ scr' = draw(t, c, r.size[1], r.size[2])
                    /\ size' = r.size
                    /\ evch' = r.evch
                    /\ dropped' = r.dropped
                    /\ mu' = c
                    /\ thr' = [thr EXCEPT ![c] = "flush"]
    /\ UNCHANGED <<parsevars, pc, keyvars, registered, lifevars>>

Show == \E c \in Callers : Render(c, "Show")

Sync == \E c \in Callers : Render(c, "Sync")

\* the last statement of draw and the return of Show or Sync
Flush ==
    \E c \in Callers :
       /\ thr[c] = "flush"
       /\ scr' = WriteTo(scr, c)
       /\ mu' = "free"
       /\ thr' = [thr EXCEPT ![c] = "idle"]
       /\ UNCHANGED <<pumpvars, keyvars, registered, lifevars, op, nops>>

\* finish runs on every call
OnceNever(once) == FALSE

\* sync.Once: finish has run
OnceDone(once) == once = "done"

\* Fini: the first call goes on to run finish, a call after finish has run
\* returns at once; a call made while finish runs waits for it
Fini ==
    \E c \in Callers :
       /\ Idle(c)
       /\ finiOnce # "running"
       /\ Called("Fini", <<>>, "nil")
       /\ IF OnceDone(finiOnce)
          THEN UNCHANGED <<finiOnce, thr>>
          ELSE /\ finiOnce' = "running"
               /\ thr' = [thr EXCEPT ![c] = "finish"]
       /\ UNCHANGED <<pumpvars, keyvars, registered, scr, mu, quit, indoneq,
                      teardowns, closes, nilret>>

\* t.quit stays open
KeepQuit(q) == q

\* close(t.quit) unless it is closed
CloseQuit(q) == TRUE

\* finish; termioFini, a hook of the operating system, has no part in the
\* state of the model
Finish ==
    \E c \in Callers :
       /\ thr[c] = "finish"
       /\ CanLock(c)
       /\ scr' = finish(scr, c)
       /\ quit' = CloseQuit(quit)
       /\ closes' = IF quit THEN closes ELSE closes + 1
       /\ teardowns' = teardowns + 1
       /\ finiOnce' = "done"
       /\ thr' = [thr EXCEPT ![c] = "idle"]
       /\ UNCHANGED <<pumpvars, keyvars, registered, mu, indoneq, nilret, op, nops>>

\* PollEvent takes the case <-t.quit and returns nil
PollQuit ==
    /\ quit
    /\ nilret' = TRUE
    /\ UNCHANGED <<pumpvars, keyvars, registered, scr, mu, thr, quit, indoneq,
                   finiOnce, teardowns, closes, op, nops>>

\* mainLoop takes the case <-t.quit, closes t.indoneq and returns
PumpQuit ==
    /\ pc = "select"
    /\ quit
    /\ indoneq' = TRUE
    /\ pc' = "done"
    /\ UNCHANGED <<parsevars, size, evch, dropped, keyvars, registered, scr, mu, thr,
                   quit, finiOnce, teardowns, closes, op, nops, nilret>>

(***************************************************************************)
(* The facade before and after Fini: every operation, called by two        *)
(* threads, with a consumer in PollEvent and the pump at its select.       *)
(***************************************************************************)
InitF == InitWith({<<97>>}, {FALSE})

NextF ==
    \/ SetStyle
    \/ Fill
    \/ Clear
    \/ SetContent
    \/ ShowCursor
    \/ HideCursor
    \/ RegisterRuneFallback
    \/ EnableMouse
    \/ DisableMouse
    \/ GetClipboardCall
    \/ SetClipboardCall
    \/ Show
    \/ Sync
    \/ Flush
    \/ Fini
    \/ Finish
    \/ PollEvent
    \/ PollQuit
    \/ PumpQuit

SpecF == InitF /\ [][NextF]_vars

(***************************************************************************)
(* C12                                                                     *)
(***************************************************************************)
\* C12: Fini is idempotent, called in sequence or by two threads at once: the
\* teardown runs once, t.quit is closed once, and a call made after finish has
\* run changes nothing of the screen and writes nothing
C12_FiniOnce ==
    [][ /\ teardowns' <= 1
        /\ closes' <= 1
        /\ (finiOnce = "done" /\ nops' # nops /\ op'.fn = "Fini")
              => UNCHANGED <<pumpvars, keyvars, registered, scr, mu, thr, lifevars>> ]_vars

\* Fini has been called twice in a row and finish has run
C12_Witness ==
    /\ op.fn = "Fini"
    /\ op.prev = "Fini"
    /\ finiOnce = "done"
    /\ teardowns = 1
    /\ closes = 1

(***************************************************************************)
(* C13                                                                     *)
(***************************************************************************)
FacadeOps ==
    {"SetStyle", "Fill", "Clear", "SetContent", "ShowCursor", "HideCursor", "Show",
     "Sync", "EnableMouse", "DisableMouse", "SetClipboard", "GetClipboard",
     "RegisterRuneFallback"}

\* C13 as stated: once fini is true, a call of any mutating operation of the
\* facade leaves the screen as it is and writes nothing
C13_NoOpAfterFini ==
    [][ (scr.fini /\ nops' # nops /\ op'.fn \in FacadeOps)
           => UNCHANGED <<scr, size, evch, dropped>> ]_vars

(***************************************************************************)
(* C14                                                                     *)
(***************************************************************************)
\* C14: PollEvent returns nil only when Fini has been called; once finish has
\* run a call of PollEvent, waiting or new, can return; and an event that
\* PollEvent returns is the head of the queue, taken off it with the same
\* step, so that no other call gets it
C14_PollEvent ==
    /\ [][ /\ (nilret' /\ ~nilret) => finiOnce # "new"
           /\ delivered' # delivered
                 => /\ evch # <<>>
                    /\ delivered' = Append(delivered, Head(evch))
                    /\ evch' = Tail(evch) ]_vars
    /\ [](scr.fini => ENABLED PollQuit)

\* an event has been returned, and after Fini a call has returned nil
C14_Witness ==
    /\ delivered # <<>>
    /\ scr.fini
    /\ nilret

(***************************************************************************)
(* C18                                                                     *)
(***************************************************************************)
\* the strings written to the terminal by this step, one per write
Written ==
    [i \in 1..(Len(scr'.out) - Len(scr.out)) |-> scr'.out[Len(scr.out) + i].data[1].s]

\* C18 as stated: GetClipboard and SetClipboard take the registers c and p
\* only: for any other register string, the empty one too, they return an
\* error and write nothing; for c and p SetClipboard writes the clear
\* sequence and then the set sequence of the register
C18_Registers ==
    [][ (mu = "free" /\ nops' # nops /\ op'.fn \in {"GetClipboard", "SetClipboard"})
           => IF op'.arg \in {<<99>>, <<112>>}
              THEN /\ op'.err = "nil"
                   /\ op'.fn = "SetClipboard"
                         => Written = <<pasteClear(op'.arg[1]),
                                        pasteSet(op'.arg[1], EncodeToString(<<104>>))>>
              ELSE /\ op'.err # "nil"
                   /\ scr' = scr ]_vars

(***************************************************************************)
(* Rendering: two threads that set cells, the style and the cursor and     *)
(* call Show and Sync, while the window changes its size and the pump      *)
(* redraws.                                                                *)
(***************************************************************************)
NextD ==
    \/ SetContent
    \/ SetStyle
    \/ ShowCursor
    \/ Show
    \/ Sync
    \/ Flush
    \/ WinChange
    \/ PumpResize

SpecD == InitF /\ [][NextD]_vars

(***************************************************************************)
(* C15                                                                     *)
(***************************************************************************)
\* the step ends a render of who: the return of draw in Show or Sync, the
\* resize branch of mainLoop
Completes(who) ==
    IF who = "pump" THEN sigwinch' < sigwinch
    ELSE thr[who] = "flush" /\ thr'[who] = "idle"

\* the write is a whole frame of who and nothing else: from the hiding of the
\* cursor to its restoring, every piece drawn by who
OneFrame(w, who) ==
    /\ w.by = who
    /\ Len(w.data) >= 2
    /\ \A i \in 1..Len(w.data) : w.data[i].by = who
    /\ w.data[1].s = ti.HideCursor
    /\ w.data[Len(w.data)].kind = "cap"
    /\ \A i \in 2..(Len(w.data) - 1) : w.data[i].s # ti.HideCursor

\* C15: however the calls of Show and Sync and the resize redraw of the pump
\* interleave, every render writes its frame with one write of its own: the
\* bytes of two renders are never mixed
C15_OneWrite ==
    [][ \A who \in Callers \cup {"pump"} :
          Completes(who)
             => /\ Len(scr'.out) = Len(scr.out) + 1
                /\ SubSeq(scr'.out, 1, Len(scr.out)) = scr.out
                /\ OneFrame(scr'.out[Len(scr'.out)], who) ]_vars

\* a thread is in the middle of a render while the resize signal waits for
\* the pump, and another thread has written a frame before
C15_Witness ==
    /\ thr["a"] = "flush"
    /\ mu = "a"
    /\ sigwinch > 0
    /\ \E i \in 1..Len(scr.out) : OneFrame(scr.out[i], "b")

(***************************************************************************)
(* C16                                                                     *)
(***************************************************************************)
\* the pieces of b that are the content of cells
CellPieces(b) == SelectSeq(b, LAMBDA pc0 : pc0.kind = "cell")

\* C16: Show is idempotent, whatever the cell buffer holds (wide glyphs, a wide
\* glyph in the last column): when a Show has drawn, a Show that follows it at
\* once draws the content of no cell
C16_ShowIdempotent ==
    [][ \A c \in Callers :
          (thr[c] = "idle" /\ thr'[c] = "flush" /\ op'.fn = "Show")
             => CellPieces(draw(WriteTo(scr', c), c, size'[1], size'[2]).buf) = <<>> ]_vars

\* the second of two calls of Show in a row has drawn, a wide glyph is in the
\* last column, and no cell was drawn
C16_Witness ==
    /\ op.fn = "Show"
    /\ op.prev = "Show"
    /\ \E c \in Callers : thr[c] = "flush"
    /\ scr.cells.c[<<size[1] - 1, 0>>].ch = 19990
    /\ CellPieces(scr.buf) = <<>>

(***************************************************************************)
(* Fini while the pump works: ten key presses arrive, a chunk of them at a *)
(* time; a consumer may or may not call PollEvent.  mainLoop goes on       *)
(* posting whenever the queue lets it, takes the quit case sooner or later *)
(* when it is at its select with t.quit closed, and finish runs once it is *)
(* called.  Nothing makes the consumer call PollEvent.                     *)
(***************************************************************************)
LStreams == {<<97, 97, 97, 97, 97, 97, 97, 97, 97, 97>>}

InitL == InitWith(LStreams, {FALSE})

NextL ==
    \/ Read
    \/ PumpChunk
    \/ Post
    \/ PollEvent
    \/ Fini
    \/ Finish
    \/ PumpQuit

SpecL ==
    /\ InitL
    /\ [][NextL]_vars
    /\ WF_vars(Post)
    /\ WF_vars(Finish)
    /\ SF_vars(PumpQuit)

(***************************************************************************)
(* C11                                                                     *)
(***************************************************************************)
\* C11 as stated: after Fini the pump closes t.indoneq and ends, sooner or
\* later, whatever it is doing and whether or not a consumer calls PollEvent
C11_PumpEnds == scr.fini ~> (indoneq /\ pc = "done")

(***************************************************************************)
(* A terminal with a key sequence that continues another one: its End key  *)
(* sends ESC O A F, and ESC O A is the Up key of the application mode.     *)
(***************************************************************************)
NestedKeys == prepareKey(prepareKeys, KeyEnd, <<27, 79, 65, 70>>)

PStreams == {<<27, 79, 65, 70>>, <<27, 79, 65, 70, 97>>, <<27, 79, 65>>, <<27, 79, 65, 97>>}

InitP ==
    /\ InitPump(PStreams, {FALSE})
    /\ kt = NestedKeys
    /\ call = NoCall
    /\ registered = <<>>
    /\ InitScr

SpecP == InitP /\ [][Next]_vars

(***************************************************************************)
(* C21                                                                     *)
(***************************************************************************)
\* the key sequences of the table, but the lone ESC, that the buffer b starts
\* with
KeyHits(b) == {e \in DOMAIN kt.keycodes : e # <<27>> /\ HasPrefix(b, e)}

\* C21 as stated: when the buffer of a scan starts with more than one key
\* sequence of the table, the first event of the scan is the Key event of the
\* longest of them and takes just the bytes of that sequence, whatever the
\* order in which the table is gone through
C21_LongestKey ==
    [][ ((ChunkStep \/ TimerScan) /\ ~escaped /\ Cardinality(KeyHits(ScanBuf)) > 1)
           => LET l == CHOOSE e \in KeyHits(ScanBuf) :
                          \A f \in KeyHits(ScanBuf) : Len(f) <= Len(e)
              IN  /\ NewEvs # <<>>
                  /\ IsKey(NewEvs[1], kt.keycodes[l].key, kt.keycodes[l].mod)
                  /\ NewEvs[1].n = Len(l) ]_vars

(***************************************************************************)
(* The mutex: the resize branch of mainLoop in two steps, from Lock to the *)
(* call of resize and from there to Unlock, with a consumer and keys that  *)
(* fill t.evch.                                                            *)
(***************************************************************************)
\* case <-t.sigwinch: t.Lock() and t.cx, t.cy = -1, -1
PumpResizeLock ==
    /\ pc = "select"
    /\ sigwinch > 0
    /\ CanLock("pump")
    /\ sigwinch' = sigwinch - 1
    /\ mu' = "pump"
    /\ pc' = "resize"
    /\ scr' = [scr EXCEPT !.cx = -1, !.cy = -1]
    /\ UNCHANGED <<stream, expired, input, reader, keychan, buf, escbuf, escaped, wasbtn,
                   buttondn, off, since, paste, rawseq, keytimer, keyexpire, pending,
                   size, winsize, nwin, emitted, dropped, delivered, evch>>
    /\ UNCHANGED <<keyvars, registered, thr, quit, indoneq, finiOnce, teardowns,
                   closes, op, nops, nilret>>

\* the send waits for room in t.evch
ResizeSendWaits(q) == CanPostWait(q)

\* t.PostEvent(ev) in resize is a select with a default case: the send goes on,
\* with or without room in t.evch
ResizeSend(q) == TRUE

\* the rest of the branch: resize(), t.cells.Invalidate(), t.draw() with its
\* write, t.Unlock()
\* the channel operation of the branch, if resize comes to it, does not wait
ResizeReady == winsize # size => ResizeSend(evch)

PumpResizeRun ==
    /\ pc = "resize"
    /\ ResizeReady
    /\ LET r == resize(scr, size, winsize, evch, dropped)
           t == [r.t EXCEPT !.cells = CellsInvalidate(@)]
       IN  /\ size' = r.size
           /\ evch' = r.evch
           /\ dropped' = r.dropped
           /\ scr' = WriteTo(draw(t, "pump", r.size[1], r.size[2]), "pump")
    /\ mu' = "free"
    /\ pc' = "select"
    /\ UNCHANGED <<stream, expired, input, reader, keychan, buf, escbuf, escaped, wasbtn,
                   buttondn, off, since, paste, rawseq, keytimer, keyexpire, pending,
                   winsize, sigwinch, nwin, emitted, delivered>>
    /\ UNCHANGED <<keyvars, registered, thr, quit, indoneq, finiOnce, teardowns,
                   closes, op, nops, nilret>>

InitM == InitWith(LStreams, {FALSE})

NextM ==
    \/ Read
    \/ PumpChunk
    \/ Post
    \/ PollEvent
    \/ WinChange
    \/ PumpResizeLock
    \/ PumpResizeRun

SpecM == InitM /\ [][NextM]_vars

(***************************************************************************)
(* C22                                                                     *)
(***************************************************************************)
\* C22: the pump never waits for a channel while it holds the mutex: it holds
\* it only in the resize branch, whose Resize event is sent without waiting, so
\* that the branch can go on to Unlock whatever the state of t.evch; at the
\* select of mainLoop and while scanInput posts the events of a scan the mutex
\* is not the pump's
C22_NoWaitLocked ==
    /\ mu = "pump" => (pc = "resize" /\ ResizeReady)
    /\ pc \in {"select", "postChunk", "postTimer", "done"} => mu # "pump"

\* the pump holds the mutex in the resize branch, the size of the window has
\* changed and t.evch is full
C22_Witness == mu = "pump" /\ winsize # size /\ Len(evch) = EvchCap

(***************************************************************************)
(* Renders and the end of the screen: two threads that set cells, call     *)
(* Show, Sync and Fini, while the window changes its size and the pump     *)
(* redraws or returns.                                                     *)
(***************************************************************************)
NextN ==
    \/ SetContent
    \/ Show
    \/ Sync
    \/ Flush
    \/ Fini
    \/ Finish
    \/ WinChange
    \/ PumpResizeLock
    \/ PumpResizeRun
    \/ PumpQuit

SpecN == InitF /\ [][NextN]_vars

\* the step holds t.draw() of who, as a whole or up to its last statement
Draws(who) ==
    IF who = "pump" THEN pc = "resize" /\ pc' = "select"
    ELSE thr[who] = "idle" /\ thr'[who] = "flush"

\* the step holds the last statement of a t.draw() of who, t.buf.WriteTo(t.out)
Flushes(who) ==
    IF who = "pump" THEN pc = "resize" /\ pc' = "select"
    ELSE thr[who] = "flush" /\ thr'[who] = "idle"

(***************************************************************************)
(* C23                                                                     *)
(***************************************************************************)
\* C23 as stated: in every render, started by Show, by Sync or by the resize
\* branch of the pump, the write that flushes t.buf is made while nobody holds
\* the mutex
C23_FlushUnlocked ==
    [][ \A who \in Callers \cup {"pump"} : Flushes(who) => mu = "free" ]_vars

(***************************************************************************)
(* C30                                                                     *)
(***************************************************************************)
\* C30 as stated: whenever draw runs, called by Show, by Sync or by the resize
\* branch of the pump, before or after Fini, the recorded size is the size of
\* the cell buffer, so that no coordinate outside of it is visited
C30_SizeOfCells ==
    [][ \A who \in Callers \cup {"pump"} :
           Draws(who) => size' = <<scr'.cells.w, scr'.cells.h>> ]_vars

(***************************************************************************)
(* The quiet time: input that ends in the middle of a sequence, so that    *)
(* bytes stay in the buffer of mainLoop until the key timer ticks, with a  *)
(* consumer that keeps calling PollEvent.                                  *)
(***************************************************************************)
TStreams ==
    {<<27>>, <<27, 91>>, <<97, 27, 79>>, <<27, 91, 60, 48, 59>>, <<228, 184>>,
     <<27, 91, 77, 32>>, <<97, 98, 27, 91, 65, 27>>}

InitT == InitWith(TStreams, {FALSE})

NextT ==
    \/ Read
    \/ PumpChunk
    \/ PumpTimer
    \/ Post
    \/ PollEvent
    \/ Tick

\* the select of mainLoop has a chunk to take
ChunkReady == pc = "select" /\ keychan # <<>> /\ CanLock("pump")

\* the select of mainLoop has the tick of the key timer to take
TimerReady == pc = "select" /\ keytimer = 0

\* time passes, the application keeps calling PollEvent, and mainLoop takes a
\* case of its select that stays ready and goes on posting once the queue has
\* room
SpecT ==
    /\ InitT
    /\ [][NextT]_vars
    /\ WF_vars(Tick)
    /\ WF_vars(Post)
    /\ WF_vars(PollEvent)
    /\ ([]<>(~ChunkReady) \/ []<><<PumpChunk>>_vars)
    /\ ([]<>(~TimerReady) \/ []<><<PumpTimer>>_vars)

(***************************************************************************)
(* C24                                                                     *)
(***************************************************************************)
\* C24: whenever mainLoop is back at its select with bytes in its buffer, the
\* key timer is armed (it runs, or its tick waits to be taken); hence, with a
\* consumer that polls, the bytes received are all consumed in the end
C24_TimerArmed ==
    /\ [](pc = "select" /\ buf # <<>> => keytimer >= 0)
    /\ (keychan # <<>> \/ buf # <<>>) ~> (keychan = <<>> /\ buf = <<>> /\ pending = <<>>)

\* bytes that the quiet time had to expire on have been consumed
C24_Witness == expired /\ buf = <<>> /\ keychan = <<>> /\ pc = "select" /\ input = <<>>

(***************************************************************************)
(* Mouse records: up to three records in a row, SGR and X10, of buttons,   *)
(* motion and the wheel, each stream read in one chunk; and input that     *)
(* starts like an SGR record and is none.                                  *)
(***************************************************************************)
\* ESC [ < btn ; 1 ; 1 and the terminator
SgrRec(btn, term) == <<27, 91, 60>> \o Dec(btn) \o <<59, 49, 59, 49, term>>

\* ESC [ M and the three bytes of button, column and row
X10Rec(cb) == <<27, 91, 77, cb, 33, 33>>

MouseRecs ==
    {SgrRec(btn, 77) : btn \in {0, 2, 35, 64, 65, 66, 96}}
    \cup {SgrRec(btn, 109) : btn \in {0, 64, 67}}
    \cup {<<27, 91, 60, 45, 53, 59, 49, 59, 49, 109>>}
    \cup {X10Rec(cb) : cb \in {32, 35, 96}}

NotSgr ==
    {<<27, 91, 60, 97>>, <<27, 91, 60, 48, 120>>, <<27, 91, 60, 59>>,
     <<27, 91, 60, 48, 59, 49, 59>>, <<27, 91, 60, 48, 59, 49>>, <<27, 91, 60>>}

UStreams ==
    MouseRecs \cup {a \o b : a \in MouseRecs, b \in MouseRecs}
    \cup {a \o b \o c : a \in MouseRecs, b \in MouseRecs, c \in MouseRecs}
    \cup NotSgr

InitU == InitWith(UStreams, {FALSE})

\* one read returns all that the terminal has sent
ReadWhole == Read /\ input' = <<>>

NextU ==
    \/ ReadWhole
    \/ PumpChunk
    \/ PumpTimer
    \/ Post
    \/ PollEvent
    \/ Tick

SpecU == InitU /\ [][NextU]_vars

\* the bytes of the stream that the event e took
EvBytes(e) == SubSeq(stream, e.pos + 1, e.pos + e.n)

IsSgr(bs) == Len(bs) > 3 /\ bs[1] = 27 /\ bs[2] = 91 /\ bs[3] = 60

RECURSIVE Number(_, _, _)
\* the decimal number of bs from i on, after the value v of the digits before
Number(bs, i, v) ==
    IF i > Len(bs) \/ bs[i] < 48 \/ bs[i] > 57 THEN v
    ELSE Number(bs, i + 1, 10 * v + (bs[i] - 48))

\* the button field of the record bs
RecCode(bs) ==
    IF IsSgr(bs)
    THEN (IF bs[4] = 45 THEN -Number(bs, 5, 0) ELSE Number(bs, 4, 0))
    ELSE bs[4]

\* the event e comes of an SGR record that ends in m
SgrReleased(e) == e.type = "Mouse" /\ IsSgr(EvBytes(e)) /\ EvBytes(e)[e.n] = 109

\* the event e comes of a wheel impulse up or down: a press record whose
\* button field is 64 or 65, with or without modifier bits
WheelImpulse(e) ==
    /\ e.type = "Mouse"
    /\ ~SgrReleased(e)
    /\ Bit(RecCode(EvBytes(e)), 6) = 1
    /\ Bit(RecCode(EvBytes(e)), 1) = 0
    /\ IsSgr(EvBytes(e)) => Bit(RecCode(EvBytes(e)), 5) = 0

PressReported(i) ==
    \E j \in 1..(i - 1) :
       /\ emitted[j].type = "Mouse"
       /\ emitted[j].btn \in {"Button1", "Button2", "Button3"}
       /\ \A k \in (j + 1)..(i - 1) : emitted[k].btn # "None"

\* C26 as stated: after any mouse records, a record with bit 6 in its button
\* field (not a release) is reported as Button1 exactly when a button press
\* has been reported since the last release or report without a button, and as
\* WheelUp or WheelDown otherwise
C26_WheelDebounce ==
    \A i \in 1..Len(emitted) :
       (/\ emitted[i].type = "Mouse"
        /\ ~SgrReleased(emitted[i])
        /\ Bit(RecCode(EvBytes(emitted[i])), 6) = 1)
          => IF PressReported(i) THEN emitted[i].btn = "Button1"
             ELSE emitted[i].btn \in {"WheelUp", "WheelDown"}

(***************************************************************************)
(* C27                                                                     *)
(***************************************************************************)
RECURSIVE SgrShape(_, _, _, _)
\* b from byte i on against ESC [ < btn ; x ; y (M|m), each number a decimal
\* integer with or without a sign: "record" when b starts with a record,
\* "prefix" when b is the start of one, "bad" otherwise; field is the number
\* being read and st what has been read of it
SgrShape(b, i, field, st) ==
    IF i > Len(b) THEN "prefix"
    ELSE LET c == b[i] IN
         IF i <= 3 THEN (IF c = <<27, 91, 60>>[i] THEN SgrShape(b, i + 1, 1, "start")
                         ELSE "bad")
         ELSE IF c = 45 /\ st = "start" THEN SgrShape(b, i + 1, field, "sign")
         ELSE IF c >= 48 /\ c <= 57 THEN SgrShape(b, i + 1, field, "dig")
         ELSE IF c = 59 /\ st = "dig" /\ field < 3 THEN SgrShape(b, i + 1, field + 1, "start")
         ELSE IF c \in {77, 109} /\ st = "dig" /\ field = 3 THEN "record"
         ELSE "bad"

\* C27 as stated: on a buffer that is not the start of any well-formed record
\* ESC [ < btn ; x ; y (M|m), parseSgrMouse answers no match (false, false),
\* never a partial match
C27_NoMatch ==
    [][ ((ChunkStep \/ TimerScan) /\ ~escaped /\ SgrShape(ScanBuf, 1, 1, "start") = "bad")
           => LET r == parseSgrMouse(ParserState(ScanBuf), size[1], size[2])
              IN  ~r.part /\ ~r.comp ]_vars

(***************************************************************************)
(* C29                                                                     *)
(***************************************************************************)
RECURSIVE ScanShrinks(_, _, _)
\* in the scan of p every iteration of the loop takes at least one byte off
\* the buffer, but the one that breaks on a partial match, which takes none and
\* comes only with expire = false
ScanShrinks(p, expire, c) ==
    IF p.buf = <<>> THEN TRUE
    ELSE LET r == Round(p, expire, c) IN
         IF r.kind = "stop" THEN ~expire /\ r.p.buf = p.buf
         ELSE /\ Len(r.p.buf) < Len(p.buf)
              /\ ScanShrinks(Tagged(p, r), expire, c)

Term8 ==
    [Colors |-> 8, SetFg |-> <<27, 91, 51, -1, 109>>, SetBg |-> <<27, 91, 52, -1, 109>>,
     SetFgBg |-> <<>>, ResetFgBg |-> <<27, 91, 51, 57, 59, 52, 57, 109>>,
     SetFgRGB |-> <<>>, SetBgRGB |-> <<>>, SetFgBgRGB |-> <<>>]

\* with a capability that sets both at once
Term8Both == [Term8 EXCEPT !.SetFgBg = <<27, 91, 51, -1, 59, 52, -2, 109>>]

\* with the RGB capabilities as well
Term8RGB ==
    [Term8Both EXCEPT
       !.SetFgRGB   = <<27, 91, 51, 56, 59, 50, 59, -1, 59, -2, 59, -3, 109>>,
       !.SetBgRGB   = <<27, 91, 52, 56, 59, 50, 59, -1, 59, -2, 59, -3, 109>>,
       !.SetFgBgRGB = <<27, 91, 51, 56, 59, 50, 59, -1, 59, -2, 59, -3, 59,
                        52, 56, 59, 50, 59, -4, 59, -5, 59, -6, 109>>]

InitC ==
    /\ InitPump({<<97>>}, {FALSE})
    /\ InitKeys
    /\ registered = <<>>
    /\ \E caps \in {Term8, Term8Both, Term8RGB}, env \in BOOLEAN :
          scr = NewScreen(caps, env)
    /\ InitRest

\* SetStyle with a style of colours
SetColourStyle ==
    \E c \in Callers, style \in ColourStyles :
       Locked(c, "SetStyle", IF ~scr.fini THEN [scr EXCEPT !.style = style] ELSE scr)

\* SetContent with a style of colours
SetColourContent ==
    \E c \in Callers, x \in 0..(size[1] - 1), style \in ColourStyles :
       Locked(c, "SetContent",
              IF ~scr.fini
              THEN [scr EXCEPT !.cells = CellsSetContent(@, x, 0, 97, style)]
              ELSE scr)

NextC ==
    \/ SetColourStyle
    \/ SetColourContent
    \/ Show
    \/ Sync
    \/ Flush

SpecC == InitC /\ [][NextC]_vars

(***************************************************************************)
(* C28                                                                     *)
(***************************************************************************)
\* C28: every palette index that sendFgBg sends is below ti.Colors, every
\* colour in the cache stands for a colour of the built-in palette, each
\* built-in colour for itself, and an entry of the cache never changes
C28_Palette ==
    /\ [](/\ \A n \in scr.sent : n >= 0 /\ n < scr.ti.Colors
          /\ \A c \in DOMAIN scr.colors :
                \E i \in 1..scr.ti.Colors : scr.colors[c] = scr.palette[i]
          /\ \A i \in 1..scr.ti.Colors :
                /\ scr.palette[i] \in DOMAIN scr.colors
                /\ scr.colors[scr.palette[i]] = scr.palette[i])
    /\ [][ \A c \in DOMAIN scr.colors :
              c \in DOMAIN scr'.colors /\ scr'.colors[c] = scr.colors[c] ]_vars

\* red, which the eight colours do not have, and an RGB colour have been
\* resolved, to maroon and to navy, and both indices have been sent
C28_Witness ==
    /\ PaletteColor(9) \in DOMAIN scr.colors
    /\ scr.colors[PaletteColor(9)] = PaletteColor(1)
    /\ NewHexColor(240) \in DOMAIN scr.colors
    /\ scr.colors[NewHexColor(240)] = PaletteColor(4)
    /\ {1, 4} \subseteq scr.sent
    /\ scr.out # <<>>

(***************************************************************************)
(* The key table as NewTerminfoScreen builds it for a terminal with        *)
(* function keys and xterm modifiers, and HasKey on the table.             *)
(***************************************************************************)
KeyF1 == KeyRune + 23

KeyF13 == KeyF1 + 12

\* the decimal digits of n, 2 <= n <= 16
Digits(n) == IF n < 10 THEN <<48 + n>> ELSE <<49, 48 + (n - 10)>>

\* the modifier calls of prepareKeyModXTerm: [n, replace - key, mod] for the
\* calls of prepareKeyModReplace, [n, mod] for those of prepareKeyMod
XTermReplace ==
    [n \in {2, 3, 4, 5, 6} |->
        CASE n = 2 -> [off |-> 12, mod |-> ModShift]
          [] n = 3 -> [off |-> 48, mod |-> ModAlt]
          [] n = 4 -> [off |-> 60, mod |-> ModAlt \cup ModShift]
          [] n = 5 -> [off |-> 24, mod |-> ModCtrl]
          [] n = 6 -> [off |-> 36, mod |-> ModCtrl \cup ModShift]]

XTermMod ==
    [n \in 7..16 |->
        CASE n = 7  -> ModAlt \cup ModCtrl
          [] n = 8  -> ModShift \cup ModAlt \cup ModCtrl
          [] n = 9  -> ModMeta
          [] n = 10 -> ModMeta \cup ModShift
          [] n = 11 -> ModMeta \cup ModAlt
          [] n = 12 -> ModMeta \cup ModAlt \cup ModShift
          [] n = 13 -> ModMeta \cup ModCtrl
          [] n = 14 -> ModMeta \cup ModCtrl \cup ModShift
          [] n = 15 -> ModMeta \cup ModCtrl \cup ModAlt
          [] n = 16 -> ModMeta \cup ModCtrl \cup ModAlt \cup ModShift]

\* the calls of a list, in order: [fn, key, replace, mod, val]
RECURSIVE applyCalls(_, _)
applyCalls(tab, calls) ==
    IF calls = <<>> THEN tab
    ELSE LET c == Head(calls)
         IN  applyCalls(IF c.fn = "prepareKeyModReplace"
                        THEN prepareKeyModReplace(tab, c.key, c.replace, c.mod, c.val)
                        ELSE prepareKeyMod(tab, c.key, c.mod, c.val),
                        Tail(calls))

prepareKeyModXTerm(tab, key, val) ==
    LET tilde == HasPrefix(val, <<27, 91>>) /\ val[Len(val)] = 126
        ss3   == HasPrefix(val, <<27, 79>>) /\ Len(val) = 3
        seq(n) == IF tilde
                  THEN Take(val, Len(val) - 1) \o <<59>> \o Digits(n) \o <<126>>
                  ELSE <<27, 91, 49, 59>> \o Digits(n) \o Drop(val, 2)
        order == IF tilde THEN <<2, 3, 4, 5, 6>> ELSE <<2, 3, 5, 6, 4>>
        calls == [i \in 1..15 |->
                    IF i <= 5
                    THEN [fn |-> "prepareKeyModReplace", key |-> key,
                          replace |-> key + XTermReplace[order[i]].off,
                          mod |-> XTermReplace[order[i]].mod, val |-> seq(order[i])]
                    ELSE [fn |-> "prepareKeyMod", key |-> key, replace |-> 0,
                          mod |-> XTermMod[i + 1], val |-> seq(i + 1)]]
    IN  IF tilde \/ ss3 THEN applyCalls(tab, calls) ELSE tab

\* prepareXtermModifiers: the keys and capabilities of its calls of
\* prepareKeyModXTerm, in order, for the capabilities of term (the other calls
\* pass a capability that term leaves empty)
XTermCalls(term) ==
    << <<KeyRight, term.KeyRight>>, <<KeyLeft, term.KeyLeft>>,
       <<KeyUp, term.KeyUp>>, <<KeyDown, term.KeyDown>>,
       <<KeyDelete, term.KeyDelete>>, <<KeyPgUp, term.KeyPgUp>>,
       <<KeyPgDn, term.KeyPgDn>>, <<KeyHome, term.KeyHome>>,
       <<KeyEnd, term.KeyEnd>>, <<KeyF1, term.KeyF1>> >>

\* prepareKeys up to its call of prepareXtermModifiers, for the terminal term
prepareCaps(term) ==
    LET kt0 == [keycodes |-> << >>, keyexist |-> {}]
        kt1 == prepareAll(kt0,
                  << <<KeyBackspace, term.KeyBackspace>>, <<KeyF1, term.KeyF1>>,
                     <<KeyF13, term.KeyF13>>, <<KeyDelete, term.KeyDelete>>,
                     <<KeyHome, term.KeyHome>>, <<KeyEnd, term.KeyEnd>>,
                     <<KeyUp, term.KeyUp>>, <<KeyDown, term.KeyDown>>,
                     <<KeyLeft, term.KeyLeft>>, <<KeyRight, term.KeyRight>>,
                     <<KeyPgUp, term.KeyPgUp>>, <<KeyPgDn, term.KeyPgDn>> >>)
    IN  IF term.EnterKeypad # <<>> THEN prepareAll(kt1, KeypadCalls) ELSE kt1

HasKey(t, k) == k = KeyRune \/ k \in t.keyexist

\* terminals: ti with function keys F1 and F13, with or without a cursor up
\* key, a keypad mode and xterm modifiers
KeyTerms ==
    {[KeyF1 |-> f1, KeyF13 |-> f13, KeyUp |-> up, EnterKeypad |-> kp,
      Modifiers |-> m] @@ ti :
        f1  \in {<<>>, <<27, 79, 80>>, <<27, 91, 49, 49, 126>>},
        f13 \in {<<>>, <<27, 91, 49, 59, 50, 80>>, <<27, 91, 49, 49, 59, 50, 126>>,
                 <<27, 91, 50, 53, 126>>},
        up  \in {<<>>, <<27, 79, 65>>},
        kp  \in {<<>>, ti.EnterKeypad},
        m   \in {"None", "XTerm"}}

\* the keys that HasKey is asked for
AskedKeys == {KeyRune, KeyUp, KeyEsc, KeyBackspace, KeyF1, KeyF13}

\* NewTerminfoScreen has made the maps, empty, and has the terminal
InitH ==
    /\ InitPump({<<97>>}, {FALSE})
    /\ kt = [keycodes |-> << >>, keyexist |-> {}]
    /\ call = NoCall
    /\ registered = <<>>
    /\ \E term \in KeyTerms : scr = NewScreen(term, TRUE)
    /\ InitRest

\* the number of calls of prepareKeyModXTerm made so far
XTermDone ==
    IF call.fn = "prepareKeyModXTerm"
    THEN Only({i \in 1..Len(XTermCalls(scr.ti)) : XTermCalls(scr.ti)[i][1] = call.key})
    ELSE 0

\* the part of prepareKeys before prepareXtermModifiers
PrepareCaps ==
    /\ call.fn = ""
    /\ kt' = prepareCaps(scr.ti)
    /\ call' = [NoCall EXCEPT !.fn = "prepareKey"]
    /\ UNCHANGED <<pumpvars, registered, scrvars>>

\* prepareXtermModifiers: its next call of prepareKeyModXTerm
PrepareKeyModXTerm ==
    /\ call.fn \in {"prepareKey", "prepareKeyModXTerm"}
    /\ scr.ti.Modifiers = "XTerm"
    /\ XTermDone < Len(XTermCalls(scr.ti))
    /\ LET c == XTermCalls(scr.ti)[XTermDone + 1]
       IN  /\ kt' = prepareKeyModXTerm(kt, c[1], c[2])
           /\ call' = [NoCall EXCEPT !.fn = "prepareKeyModXTerm", !.key = c[1],
                                     !.val = c[2]]
    /\ UNCHANGED <<pumpvars, registered, scrvars>>

\* the loop over the control bytes, which ends prepareKeys
PrepareCtrl ==
    /\ \/ call.fn = "prepareKey" /\ scr.ti.Modifiers # "XTerm"
       \/ call.fn = "prepareKeyModXTerm" /\ XTermDone = Len(XTermCalls(scr.ti))
    /\ kt' = prepareCtrl(kt, 0)
    /\ call' = [NoCall EXCEPT !.fn = "prepareKeys"]
    /\ UNCHANGED <<pumpvars, registered, scrvars>>

\* HasKey(k), called once the screen exists; the operation record has the
\* result in ret
HasKeyCall ==
    \E c \in Callers, k \in AskedKeys :
       /\ call.fn = "prepareKeys"
       /\ Idle(c)
       /\ op' = [fn |-> "HasKey", arg |-> <<k>>, err |-> "nil", prev |-> op.fn,
                 ret |-> HasKey(kt, k)]
       /\ nops' = nops + 1
       /\ UNCHANGED <<pumpvars, keyvars, registered, scr, mu, thr, lifevars>>

NextH == PrepareCaps \/ PrepareKeyModXTerm \/ PrepareCtrl \/ HasKeyCall

SpecH == InitH /\ [][NextH]_vars

(***************************************************************************)
(* C32                                                                     *)
(***************************************************************************)
\* some sequence of the key table maps to k
Mapped(k) == \E s \in DOMAIN kt.keycodes : kt.keycodes[s].key = k

\* C32: once the key table is built, HasKey(k) returns true exactly when k is
\* KeyRune or some sequence of the key table maps to k
C32_HasKeyMapped ==
    (call.fn = "prepareKeys" /\ op.fn = "HasKey") =>
        (op.ret <=> (op.arg[1] = KeyRune \/ Mapped(op.arg[1])))

(***************************************************************************)
(* C31                                                                     *)
(***************************************************************************)
\* the facade operations that write capability strings through TPuts
CapOps == {"EnableMouse", "DisableMouse", "GetClipboard", "SetClipboard"}

\* the step is a call of one of them that has written: it has read
\* t.buffering and has added to t.buf or to the terminal
CapWrite ==
    /\ nops' = nops + 1
    /\ op'.fn \in CapOps
    /\ (scr'.buf # scr.buf \/ scr'.out # scr.out)

\* C31: t.buffering and t.buf are read and written only under the screen
\* mutex: a facade operation that writes capability strings does not write
\* while another task holds the mutex for a render
C31_OutputLocked == [][CapWrite => mu = "free"]_vars

====
